---- MODULE Spec2Model ----
(***************************************************************************)
(* Model of the Q-FOX assignment-and-learning engine (src/qfox_core.py):   *)
(* the Task and Agent entities, the capability ledger                      *)
(* (Agent.update_confidence), the scoring function                         *)
(* (QFoxController.calculate_agent_score), the greedy assignment engine    *)
(* (assign_tasks), the completion processor (process_task_completion),     *)
(* removal of agents and tasks, the training-mode toggle, the simulation   *)
(* tick (simulate_task_execution), the snapshot get_system_state returns,  *)
(* and the dashboard's simulation thread (src/qfox_dashboard.py).          *)
(*                                                                         *)
(* Numbers.  Python floats are modelled as exact rationals held in         *)
(* integers over a fixed denominator:                                      *)
(*   - a confidence c is the integer c * SCALE;                            *)
(*   - a score s is the integer s * ScoreDen;                              *)
(*   - a learning rate r is the integer 10 * r (1 for 0.1, 3 for 0.3);     *)
(*   - a ratio (success rate, efficiency, utilisation, adaptability) is a  *)
(*     record [n |-> numerator, d |-> denominator].                        *)
(* uuid4 identifiers are modelled as fresh positive integers; dicts keep   *)
(* insertion order, which is then the ascending order of the ids.          *)
(* datetime.now() is the reading of clock, in minutes; started_at holds    *)
(* such a reading, the other timestamps are modelled by whether they are   *)
(* set.  random.random() is a draw from RandomDraws.                       *)
(***************************************************************************)
EXTENDS Integers, Sequences, FiniteSets, TLC

\* ------------------------------------------------------------------ bounds
\* Spec: agents ever added, tasks ever created, completions that take effect
MaxAgents == 2
MaxTasks == 2
MaxCompletions == 2
\* SpecSolo: the same three bounds, for one agent working through more tasks
SoloAgents == 1
SoloTasks == 3
SoloCompletions == 1
\* SpecLedger: the same three bounds, with direct update_confidence calls
LedgerAgents == 1
LedgerTasks == 1
LedgerCompletions == 1
\* SpecProbe: the same three bounds, with the driver logging its calls
ProbeAgents == 1
ProbeTasks == 2
ProbeCompletions == 1
\* confidence updates one agent receives, over all its capabilities
MaxUpd == 3
\* SpecMixed: agents ever added, tasks ever created, completions that take
\* effect, with tasks that require two different capabilities
MixedAgents == 2
MixedTasks == 2
MixedCompletions == 1
\* SpecTally: the same three bounds, for a run of completions at one
\* learning rate
TallyAgents == 2
TallyTasks == 3
TallyCompletions == 3
\* SpecHandover: the same three bounds, with the driver logging its calls,
\* for a task handed from a removed agent to another one
HandoverAgents == 2
HandoverTasks == 1
HandoverCompletions == 1
\* SpecApart: the same three bounds, for agents that share no capability
ApartAgents == 2
ApartTasks == 2
ApartCompletions == 1
\* SpecSim: agents ever added, tasks ever created, and the last reading of
\* the clock, in minutes
SimAgents == 2
SimTasks == 2
MaxClock == 3
\* SpecSnapshot: agents ever added, tasks ever created, completions that
\* take effect
SnapAgents == 1
SnapTasks == 1
SnapCompletions == 1
\* SpecDashboard: agents ever added, tasks ever created, and the last
\* reading of the clock
DashAgents == 2
DashTasks == 2
DashClock == 1
\* SpecRace: agents ever added, tasks ever created, and assign_tasks calls
\* made
RaceAgents == 2
RaceTasks == 2
RaceCallers == 2
\* SpecLoops: agents ever added, tasks ever created, and Start clicks
LoopAgents == 1
LoopTasks == 1
LoopStarts == 2
\* SpecRing: agents ever added, and outcomes pushed into one outcome history
RingAgents == 1
MaxPushes == 12
\* SpecLive: agents ever added and tasks ever created
LiveAgents == 1
LiveTasks == 2
\* SpecQueue: agents ever added and tasks ever created
QueueAgents == 1
QueueTasks == 2

\* ------------------------------------------------------- program constants
\* bounded outcome history: "Keep only the last 10 outcomes"
HistoryCap == 10

\* ------------------------------------------------------------ input domains
Caps == {"x", "y"}
\* capability lists passed to add_agent (only membership and emptiness of
\* the list are ever used, so a list is modelled by the set of its elements)
AgentCapSets == {{"x"}, {"x", "y"}}
\* arguments passed to create_task; required_capabilities keeps order and
\* duplicates (the code iterates the list and takes its len)
TaskInputs ==
    {[required_capabilities |-> <<"x">>, complexity |-> 5, priority |-> 9,
      estimated_duration |-> 10],
     [required_capabilities |-> <<"x", "x">>, complexity |-> 5, priority |-> 3,
      estimated_duration |-> 10],
     [required_capabilities |-> <<"y">>, complexity |-> 7, priority |-> 3,
      estimated_duration |-> 10]}
\* capability lists of agents that have no capability in common (SpecApart)
ApartCapSets == {{"x"}, {"y"}}
\* arguments passed to create_task in SpecApart: one capability, both, none
ApartTaskInputs ==
    {[required_capabilities |-> <<"x">>, complexity |-> 5, priority |-> 9,
      estimated_duration |-> 10],
     [required_capabilities |-> <<"y">>, complexity |-> 7, priority |-> 3,
      estimated_duration |-> 10],
     [required_capabilities |-> <<"x", "y">>, complexity |-> 5, priority |-> 9,
      estimated_duration |-> 10],
     [required_capabilities |-> <<>>, complexity |-> 5, priority |-> 9,
      estimated_duration |-> 10]}
\* arguments passed to create_task for a task that requires two different
\* capabilities (SpecMixed)
MixedTaskInputs ==
    {[required_capabilities |-> <<"x", "y">>, complexity |-> 5, priority |-> 9,
      estimated_duration |-> 10]}
\* arguments passed to create_task in SpecSim: tasks estimated at one and
\* two minutes
SimTaskInputs ==
    {[required_capabilities |-> <<"x">>, complexity |-> 5, priority |-> 9,
      estimated_duration |-> 1],
     [required_capabilities |-> <<"x", "y">>, complexity |-> 5, priority |-> 3,
      estimated_duration |-> 2]}
\* tasks of SpecLive: one required capability, due after one or two minutes
LiveTaskInputs ==
    {[required_capabilities |-> <<"x">>, complexity |-> 5, priority |-> 9,
      estimated_duration |-> 1],
     [required_capabilities |-> <<"x">>, complexity |-> 5, priority |-> 3,
      estimated_duration |-> 2]}
\* actual_duration values passed to process_task_completion
Durations == {4, 7}

\* None for an Optional[str] id, and for an Optional[float]
None == 0
NoneF == -1

\* ------------------------------------------------------------------ numbers
RECURSIVE Pow10(_)
Pow10(k) == IF k = 0 THEN 1 ELSE 10 * Pow10(k - 1)

\* denominator of confidence values: 0.5 is SCALE \div 2 and every update
\* multiplies the denominator by 10
SCALE == 2 * Pow10(MaxUpd)

Min(a, b) == IF a < b THEN a ELSE b
Max(a, b) == IF a > b THEN a ELSE b

RECURSIVE Gcd(_, _)
Gcd(a, b) == IF b = 0 THEN a ELSE Gcd(b, a % b)

Lcm(a, b) == (a * b) \div Gcd(a, b)

RECURSIVE LcmUpTo(_)
LcmUpTo(k) == IF k <= 1 THEN 1 ELSE Lcm(k, LcmUpTo(k - 1))

\* common denominator of n/len(required_capabilities) and n/count
LcmReq ==
    LcmUpTo(CHOOSE k \in 0..8 :
               /\ \E i \in TaskInputs : Len(i.required_capabilities) = k
               /\ \A i \in TaskInputs : Len(i.required_capabilities) <= k)

\* common denominator of the success rates sum(history)/len(history) and of
\* the default 0.5
SRDen == Lcm(2, LcmUpTo(Min(HistoryCap, MaxUpd)))

\* denominator of scores
ScoreDen == 1000 * SCALE * LcmReq * SRDen

\* Threshold at 0.05
ThresholdHalved == ScoreDen \div 20

\* the acceptance threshold 0.1 of assign_tasks, as a score
Threshold == ScoreDen \div 10

Range(s) == {s[i] : i \in DOMAIN s}

RECURSIVE SumSeq(_)
SumSeq(s) == IF s = <<>> THEN 0 ELSE Head(s) + SumSeq(Tail(s))

RECURSIVE SumFn(_, _)
SumFn(f, S) ==
    IF S = {} THEN 0
    ELSE LET e == CHOOSE e \in S : TRUE IN f[e] + SumFn(f, S \ {e})

\* ----------------------------------------------------------------- state
VARIABLES agents, tasks, nextAgentId, nextTaskId, assignment_history,
          system_metrics, training_mode, lastOp, outcome_log,
          simulation_active, clock, sim_thread, snapshot,
          stop_simulation, threads

vars == <<agents, tasks, nextAgentId, nextTaskId, assignment_history,
          system_metrics, training_mode, lastOp, outcome_log,
          simulation_active, clock, sim_thread, snapshot,
          stop_simulation, threads>>

\* the controller's state: everything but the driver's logs
ctl == <<agents, tasks, nextAgentId, nextTaskId, assignment_history,
         system_metrics, training_mode>>

\* the ids a caller can pass: every id handed out so far (registered or
\* removed since) and one that was never handed out
AgentIds == 1..nextAgentId
TaskIds == 1..nextTaskId

\* the driver's log of the last call it made: the operation and the agent or
\* task id it passed (kept by SpecProbe only; constant elsewhere)
Call(op, id) == [op |-> op, id |-> id]

\* the driver's record of one update_confidence call it made (the calls are
\* kept in outcome_log, in call order, by SpecRing only; constant elsewhere)
Pushed(agent_id, capability, outcome) ==
    [agent |-> agent_id, capability |-> capability, outcome |-> outcome]

\* the dashboard's simulation thread between two iterations of its loop:
\* pc is where it stands, size is the length of the tasks dict when the
\* scan of an assign_tasks call began, pending_tasks and available_agents
\* are the local lists of the call (kept by SpecDashboard only)
ThreadAtRest ==
    [pc |-> "rest", size |-> 0, pending_tasks |-> <<>>,
     available_agents |-> <<>>]

\* no get_system_state result is held by a caller (one is held in
\* SpecSnapshot only)
NoSnapshot ==
    [held |-> FALSE, agents |-> {}, system_metrics |-> FALSE,
     training_mode |-> FALSE]

\* Task(...) as constructed by create_task
NewTask(req, complexity, priority, est) ==
    [required_capabilities |-> req,
     complexity |-> complexity,
     priority |-> priority,
     estimated_duration |-> est,
     status |-> "pending",
     assigned_agent |-> None,
     started_at |-> NoneF,
     completed_at |-> FALSE,
     actual_duration |-> NoneF,
     success_score |-> NoneF]

\* Agent(...) as constructed by add_agent, after __post_init__
NewAgent(caps) ==
    [capabilities |-> caps,
     confidence_scores |-> [c \in caps |-> SCALE \div 2],
     success_history |-> [c \in caps |-> <<>>],
     performance_history |-> <<>>,
     status |-> "idle",
     current_task |-> None,
     total_tasks_completed |-> 0,
     total_tasks_failed |-> 0,
     average_success_rate |-> [n |-> 0, d |-> 1],
     learning_rate |-> 1,
     adaptability_score |-> [n |-> 1, d |-> 2]]

\* ------------------------------------------------------ capability ledger
\* Agent.get_capability_confidence: confidence_scores.get(capability, 0.5)
get_capability_confidence(agent, capability) ==
    IF capability \in DOMAIN agent.confidence_scores
    THEN agent.confidence_scores[capability]
    ELSE SCALE \div 2

\* Agent.get_success_rate, in units of 1/SRDen
get_success_rate(agent, capability) ==
    LET history == IF capability \in DOMAIN agent.success_history
                   THEN agent.success_history[capability]
                   ELSE <<>>
    IN  IF history = <<>>
        THEN SRDen \div 2
        ELSE (SumSeq(history) * SRDen) \div Len(history)

\* NewConfidence as an accumulating rule: confidence + learning_rate * outcome,
\* without the pull toward the outcome and without the clamp
NewConfidenceAccumulates(current_confidence, learning_rate, outcome) ==
    (10 * current_confidence + learning_rate * outcome * SCALE) \div 10

\* the learning rule: confidence + learning_rate * (outcome - confidence),
\* then max(0.0, min(1.0, .))
NewConfidence(current_confidence, learning_rate, outcome) ==
    LET new_confidence ==
            (10 * current_confidence
               + learning_rate * (outcome * SCALE - current_confidence)) \div 10
    IN  Max(0, Min(SCALE, new_confidence))

\* LastOutcomes that evicts the newest entry: history[:10]
LastOutcomesKeepsOldest(history) ==
    IF Len(history) > HistoryCap
    THEN SubSeq(history, 1, HistoryCap)
    ELSE history

\* "Keep only the last 10 outcomes"
LastOutcomes(history) ==
    IF Len(history) > HistoryCap
    THEN SubSeq(history, Len(history) - HistoryCap + 1, Len(history))
    ELSE history

\* update_confidence that takes the updated capability's confidence alone
\* as the adaptability score
update_confidence_adapts_to_one(agent, capability, outcome) ==
    IF capability \notin agent.capabilities
    THEN agent
    ELSE LET conf == [agent.confidence_scores EXCEPT ![capability] =
                         NewConfidence(@, agent.learning_rate, outcome)]
             hist == [agent.success_history EXCEPT ![capability] =
                         LastOutcomes(Append(@, outcome))]
         IN  [agent EXCEPT
                 !.confidence_scores = conf,
                 !.success_history = hist,
                 !.adaptability_score = [n |-> conf[capability], d |-> SCALE]]

\* Agent.update_confidence: the agent after the call
update_confidence(agent, capability, outcome) ==
    IF capability \notin agent.capabilities
    THEN agent
    ELSE LET conf == [agent.confidence_scores EXCEPT ![capability] =
                         NewConfidence(@, agent.learning_rate, outcome)]
             hist == [agent.success_history EXCEPT ![capability] =
                         LastOutcomes(Append(@, outcome))]
         IN  [agent EXCEPT
                 !.confidence_scores = conf,
                 !.success_history = hist,
                 !.adaptability_score =
                     [n |-> SumFn(conf, DOMAIN conf),
                      d |-> Cardinality(DOMAIN conf) * SCALE]]

\* record_performance that counts every outcome as completed and a failure
\* as failed too
record_performance_counts_twice(agent, task_id, success, duration, complexity, capabilities_used) ==
    LET completed == agent.total_tasks_completed + 1
        failed == agent.total_tasks_failed + (IF success THEN 0 ELSE 1)
    IN  [agent EXCEPT
            !.performance_history =
                Append(@, [task_id |-> task_id,
                           success |-> success,
                           duration |-> duration,
                           complexity |-> complexity,
                           capabilities |-> capabilities_used]),
            !.total_tasks_completed = completed,
            !.total_tasks_failed = failed,
            !.average_success_rate = [n |-> completed, d |-> completed + failed]]

\* Agent.record_performance: the agent after the call
record_performance(agent, task_id, success, duration, complexity, capabilities_used) ==
    LET completed == agent.total_tasks_completed + (IF success THEN 1 ELSE 0)
        failed == agent.total_tasks_failed + (IF success THEN 0 ELSE 1)
    IN  [agent EXCEPT
            !.performance_history =
                Append(@, [task_id |-> task_id,
                           success |-> success,
                           duration |-> duration,
                           complexity |-> complexity,
                           capabilities |-> capabilities_used]),
            !.total_tasks_completed = completed,
            !.total_tasks_failed = failed,
            !.average_success_rate =
                IF completed + failed > 0
                THEN [n |-> completed, d |-> completed + failed]
                ELSE @]

\* ------------------------------------------------------- scoring function
\* calculate_agent_score with the match signal taken as the number of matching
\* entries of the required list over the number of distinct required names
calculate_agent_score_counts_entries(agent, task) ==
    LET req == task.required_capabilities
        matched == {i \in DOMAIN req : req[i] \in agent.capabilities}
        matching_capabilities == agent.capabilities \cap Range(req)
        count == Cardinality(matched)
        confidence_sum ==
            SumFn([i \in matched |-> get_capability_confidence(agent, req[i])], matched)
        success_rate_sum ==
            SumFn([i \in matched |-> get_success_rate(agent, req[i])], matched)
        \* capability_match * 0.40
        match_term ==
            400 * count * (LcmReq \div Cardinality(Range(req))) * SRDen * SCALE
        \* avg_confidence * 0.35
        confidence_term ==
            IF count > 0
            THEN 350 * confidence_sum * (LcmReq \div count) * SRDen
            ELSE 0
        \* avg_success_rate * 0.15
        success_term ==
            IF count > 0
            THEN 150 * success_rate_sum * (LcmReq \div count) * SCALE
            ELSE 0
        \* load_score * 0.10, load_score 1.0 if idle else 0.3
        load_term ==
            (IF agent.status = "idle" THEN 100 ELSE 30) * SCALE * LcmReq * SRDen
    IN  IF agent.capabilities = {} \/ req = <<>>
        THEN 0
        ELSE match_term + confidence_term + success_term + load_term

\* QFoxController.calculate_agent_score, in units of 1/ScoreDen
calculate_agent_score(agent, task) ==
    LET req == task.required_capabilities
        matched == {i \in DOMAIN req : req[i] \in agent.capabilities}
        matching_capabilities == agent.capabilities \cap Range(req)
        count == Cardinality(matched)
        confidence_sum ==
            SumFn([i \in matched |-> get_capability_confidence(agent, req[i])], matched)
        success_rate_sum ==
            SumFn([i \in matched |-> get_success_rate(agent, req[i])], matched)
        \* capability_match * 0.40
        match_term ==
            400 * Cardinality(matching_capabilities) * (LcmReq \div Len(req))
                * SRDen * SCALE
        \* avg_confidence * 0.35
        confidence_term ==
            IF count > 0
            THEN 350 * confidence_sum * (LcmReq \div count) * SRDen
            ELSE 0
        \* avg_success_rate * 0.15
        success_term ==
            IF count > 0
            THEN 150 * success_rate_sum * (LcmReq \div count) * SCALE
            ELSE 0
        \* load_score * 0.10, load_score 1.0 if idle else 0.3
        load_term ==
            (IF agent.status = "idle" THEN 100 ELSE 30) * SCALE * LcmReq * SRDen
    IN  IF agent.capabilities = {} \/ req = <<>>
        THEN 0
        ELSE match_term + confidence_term + success_term + load_term

Init ==
    /\ agents = <<>>
    /\ tasks = <<>>
    /\ nextAgentId = 1
    /\ nextTaskId = 1
    /\ assignment_history = <<>>
    /\ system_metrics = [total_tasks_created |-> 0,
                         total_tasks_completed |-> 0,
                         total_tasks_failed |-> 0,
                         system_efficiency |-> [n |-> 0, d |-> 1],
                         agent_utilization |-> [n |-> 0, d |-> 1]]
    /\ training_mode = FALSE
    /\ lastOp = Call("init", None)
    /\ outcome_log = <<>>
    /\ simulation_active = FALSE
    /\ clock = 0
    /\ sim_thread = ThreadAtRest
    /\ snapshot = NoSnapshot
    /\ stop_simulation = FALSE
    /\ threads = <<>>

\* ------------------------------------------------------ add_agent, create_task
AddAgent(caps) ==
    /\ agents' = agents @@ (nextAgentId :> NewAgent(caps))
    /\ nextAgentId' = nextAgentId + 1
    /\ UNCHANGED <<tasks, nextTaskId, assignment_history, system_metrics,
                   training_mode>>

CreateTask(req, complexity, priority, est) ==
    /\ tasks' = tasks @@ (nextTaskId :> NewTask(req, complexity, priority, est))
    /\ nextTaskId' = nextTaskId + 1
    /\ system_metrics' = [system_metrics EXCEPT
                             !.total_tasks_created = @ + 1]
    /\ UNCHANGED <<agents, nextAgentId, assignment_history, training_mode>>

\* ------------------------------------------------------- assignment engine
\* the ids of S in dict (insertion) order
RECURSIVE InOrder(_)
InOrder(S) ==
    IF S = {} THEN <<>>
    ELSE LET m == CHOOSE m \in S : \A o \in S : m <= o
         IN  <<m>> \o InOrder(S \ {m})

\* SortByPriority with the sort forgotten: the tasks stay in dict order
SortByPriorityUnsorted(S) == InOrder(S)

\* pending_tasks.sort(key=priority, reverse=True): a stable sort, so tasks
\* of equal priority keep dict order
RECURSIVE SortByPriority(_)
SortByPriority(S) ==
    IF S = {} THEN <<>>
    ELSE LET m == CHOOSE m \in S : \A o \in S :
                      \/ tasks[m].priority > tasks[o].priority
                      \/ tasks[m].priority = tasks[o].priority /\ m <= o
         IN  <<m>> \o SortByPriority(S \ {m})

\* BestAgent that takes the first agent of the list scoring above zero
RECURSIVE BestAgentFirstFit(_, _, _, _)
BestAgentFirstFit(available_agents, task, best_agent, best_score) ==
    IF available_agents = <<>>
    THEN [agent |-> best_agent, score |-> best_score]
    ELSE LET a == Head(available_agents)
             score == calculate_agent_score(agents[a], task)
         IN  IF score > best_score /\ best_agent = None
             THEN BestAgentFirstFit(Tail(available_agents), task, a, score)
             ELSE BestAgentFirstFit(Tail(available_agents), task, best_agent, best_score)

\* BestAgent that lets an equal score replace the best so far
RECURSIVE BestAgentLastOfTies(_, _, _, _)
BestAgentLastOfTies(available_agents, task, best_agent, best_score) ==
    IF available_agents = <<>>
    THEN [agent |-> best_agent, score |-> best_score]
    ELSE LET a == Head(available_agents)
             score == calculate_agent_score(agents[a], task)
         IN  IF score >= best_score
             THEN BestAgentLastOfTies(Tail(available_agents), task, a, score)
             ELSE BestAgentLastOfTies(Tail(available_agents), task, best_agent, best_score)

\* the inner loop of assign_tasks over available_agents: best_score starts at
\* 0.0 and only a strictly greater score replaces the best so far
RECURSIVE BestAgent(_, _, _, _)
BestAgent(available_agents, task, best_agent, best_score) ==
    IF available_agents = <<>>
    THEN [agent |-> best_agent, score |-> best_score]
    ELSE LET a == Head(available_agents)
             score == calculate_agent_score(agents[a], task)
         IN  IF score > best_score
             THEN BestAgent(Tail(available_agents), task, a, score)
             ELSE BestAgent(Tail(available_agents), task, best_agent, best_score)

\* ListRemove with the removal forgotten: the list is left as it was
ListRemoveNothing(list, e) == list

\* available_agents.remove(best_agent)
ListRemove(list, e) == SelectSeq(list, LAMBDA x : x # e)

RECURSIVE AssignLoop(_, _)
\* AssignLoop that accepts a best score equal to the threshold
AssignLoopAtThreshold(pending_tasks, available_agents) ==
    IF pending_tasks = <<>>
    THEN <<>>
    ELSE LET t == Head(pending_tasks)
             best == BestAgent(available_agents, tasks[t], None, 0)
         IN  IF best.agent # None /\ best.score >= Threshold
             THEN <<[task_id |-> t, agent_id |-> best.agent, score |-> best.score]>>
                      \o AssignLoop(Tail(pending_tasks),
                                    ListRemove(available_agents, best.agent))
             ELSE AssignLoop(Tail(pending_tasks), available_agents)

\* AssignLoop that returns after its first commit
AssignLoopOnce(pending_tasks, available_agents) ==
    IF pending_tasks = <<>>
    THEN <<>>
    ELSE LET t == Head(pending_tasks)
             best == BestAgent(available_agents, tasks[t], None, 0)
         IN  IF best.agent # None /\ best.score > Threshold
             THEN <<[task_id |-> t, agent_id |-> best.agent, score |-> best.score]>>
             ELSE AssignLoop(Tail(pending_tasks), available_agents)

\* the outer loop of assign_tasks: the assignment records it produces
AssignLoop(pending_tasks, available_agents) ==
    IF pending_tasks = <<>>
    THEN <<>>
    ELSE LET t == Head(pending_tasks)
             best == BestAgent(available_agents, tasks[t], None, 0)
         IN  IF best.agent # None /\ best.score > Threshold
             THEN <<[task_id |-> t, agent_id |-> best.agent, score |-> best.score]>>
                      \o AssignLoop(Tail(pending_tasks),
                                    ListRemove(available_agents, best.agent))
             ELSE AssignLoop(Tail(pending_tasks), available_agents)

\* the list assign_tasks returns in the current state
Assignments ==
    LET pending_tasks == {t \in DOMAIN tasks : tasks[t].status = "pending"}
        available_agents == {a \in DOMAIN agents : agents[a].status = "idle"}
    IN  IF pending_tasks = {} \/ available_agents = {}
        THEN <<>>
        ELSE AssignLoop(SortByPriority(pending_tasks), InOrder(available_agents))

\* QFoxController.assign_tasks
AssignTasks ==
    LET assignments == Assignments
        taskOf(a) == CHOOSE i \in DOMAIN assignments : assignments[i].agent_id = a
        agentOf(t) == CHOOSE i \in DOMAIN assignments : assignments[i].task_id = t
    IN  /\ tasks' = [t \in DOMAIN tasks |->
                        IF \E i \in DOMAIN assignments : assignments[i].task_id = t
                        THEN [tasks[t] EXCEPT
                                 !.assigned_agent = assignments[agentOf(t)].agent_id,
                                 !.status = "in_progress",
                                 !.started_at = clock]
                        ELSE tasks[t]]
        /\ agents' = [a \in DOMAIN agents |->
                         IF \E i \in DOMAIN assignments : assignments[i].agent_id = a
                         THEN [agents[a] EXCEPT
                                  !.current_task = assignments[taskOf(a)].task_id,
                                  !.status = "busy"]
                         ELSE agents[a]]
        /\ assignment_history' = assignment_history \o assignments
        /\ UNCHANGED <<nextAgentId, nextTaskId, system_metrics, training_mode>>

\* ---------------------------------------------------- completion processor
\* UpdateAll over the agent's own capabilities instead of the task's
\* required ones
UpdateAllDeclared(agent, required_capabilities, outcome) ==
    LET RECURSIVE Each(_, _)
        Each(ag, S) ==
            IF S = {} THEN ag
            ELSE LET c == CHOOSE c \in S : TRUE
                 IN  Each(update_confidence(ag, c, outcome), S \ {c})
    IN  Each(agent, agent.capabilities)

\* "for capability in task.required_capabilities: agent.update_confidence(...)"
RECURSIVE UpdateAll(_, _, _)
UpdateAll(agent, required_capabilities, outcome) ==
    IF required_capabilities = <<>>
    THEN agent
    ELSE UpdateAll(update_confidence(agent, Head(required_capabilities), outcome),
                   Tail(required_capabilities), outcome)

\* update_system_metrics that counts the busy agents as they were when the
\* completion began, before the completing agent was released
update_system_metrics_before_release(metrics, registry) ==
    LET total_completed == metrics.total_tasks_completed
        total_failed == metrics.total_tasks_failed
        total_tasks == total_completed + total_failed
        busy_agents == Cardinality({a \in DOMAIN agents : agents[a].status # "idle"})
        total_agents == Cardinality(DOMAIN registry)
    IN  [metrics EXCEPT
            !.system_efficiency =
                IF total_tasks > 0 THEN [n |-> total_completed, d |-> total_tasks] ELSE @,
            !.agent_utilization =
                IF total_agents > 0 THEN [n |-> busy_agents, d |-> total_agents] ELSE @]

\* QFoxController._update_system_metrics: the metrics after the call, given
\* the agent registry it reads
update_system_metrics(metrics, registry) ==
    LET total_completed == metrics.total_tasks_completed
        total_failed == metrics.total_tasks_failed
        total_tasks == total_completed + total_failed
        busy_agents == Cardinality({a \in DOMAIN registry : registry[a].status # "idle"})
        total_agents == Cardinality(DOMAIN registry)
    IN  [metrics EXCEPT
            !.system_efficiency =
                IF total_tasks > 0 THEN [n |-> total_completed, d |-> total_tasks] ELSE @,
            !.agent_utilization =
                IF total_agents > 0 THEN [n |-> busy_agents, d |-> total_agents] ELSE @]

\* the early returns of process_task_completion: unknown task, no assigned
\* agent, assigned agent not in the registry
CompletionIgnored(task_id) ==
    IF task_id \notin DOMAIN tasks
    THEN TRUE
    ELSE IF tasks[task_id].assigned_agent = None
         THEN TRUE
         ELSE tasks[task_id].assigned_agent \notin DOMAIN agents

\* number of updates the capability receives from one pass over the list
Occurrences(required_capabilities, capability) ==
    Cardinality({i \in DOMAIN required_capabilities :
                    required_capabilities[i] = capability})

\* the updates of a completion stay within the modelled number of updates
UpdatesFit(agent, required_capabilities) ==
    LET done == SumFn([c \in agent.capabilities |-> Len(agent.success_history[c])],
                      agent.capabilities)
        more == SumFn([c \in agent.capabilities |->
                          Occurrences(required_capabilities, c)],
                      agent.capabilities)
    IN  done + more <= MaxUpd

\* Finished that scores every outcome 1.0
FinishedScoresOne(task, success, actual_duration) ==
    [task EXCEPT
        !.status = IF success THEN "completed" ELSE "failed",
        !.completed_at = TRUE,
        !.actual_duration = actual_duration,
        !.success_score = 1]

\* the "Update task" block of process_task_completion: the task after it
Finished(task, success, actual_duration) ==
    [task EXCEPT
        !.status = IF success THEN "completed" ELSE "failed",
        !.completed_at = TRUE,
        !.actual_duration = actual_duration,
        !.success_score = IF success THEN 1 ELSE 0]

\* ProcessTaskCompletion with the "Update task" block run before the lookup
\* of the agent: a task whose agent is gone is still marked
ProcessTaskCompletionMarksFirst(task_id, success, actual_duration) ==
    IF task_id \notin DOMAIN tasks
    THEN UNCHANGED ctl
    ELSE IF tasks[task_id].assigned_agent = None
    THEN UNCHANGED ctl
    ELSE IF tasks[task_id].assigned_agent \notin DOMAIN agents
    THEN /\ tasks' = [tasks EXCEPT ![task_id] = Finished(@, success, actual_duration)]
         /\ UNCHANGED <<agents, nextAgentId, nextTaskId, assignment_history,
                        system_metrics, training_mode>>
    ELSE LET task == tasks[task_id]
             agent_id == task.assigned_agent
             learned == UpdateAll(agents[agent_id], task.required_capabilities,
                                  IF success THEN 1 ELSE 0)
             recorded == record_performance(learned, task_id, success,
                             actual_duration, task.complexity,
                             task.required_capabilities)
             released == [recorded EXCEPT !.current_task = None, !.status = "idle"]
             counted == [system_metrics EXCEPT
                            !.total_tasks_completed = @ + (IF success THEN 1 ELSE 0),
                            !.total_tasks_failed = @ + (IF success THEN 0 ELSE 1)]
         IN  /\ UpdatesFit(agents[agent_id], task.required_capabilities)
             /\ tasks' = [tasks EXCEPT ![task_id] = Finished(@, success, actual_duration)]
             /\ agents' = [agents EXCEPT ![agent_id] = released]
             /\ system_metrics' = update_system_metrics(counted, agents')
             /\ UNCHANGED <<nextAgentId, nextTaskId, assignment_history,
                            training_mode>>

\* ProcessTaskCompletion that leaves the agent busy on the finished task
ProcessTaskCompletionKeepsBusy(task_id, success, actual_duration) ==
    IF CompletionIgnored(task_id)
    THEN UNCHANGED ctl
    ELSE LET task == tasks[task_id]
             agent_id == task.assigned_agent
             learned == UpdateAll(agents[agent_id], task.required_capabilities,
                                  IF success THEN 1 ELSE 0)
             recorded == record_performance(learned, task_id, success,
                             actual_duration, task.complexity,
                             task.required_capabilities)
             counted == [system_metrics EXCEPT
                            !.total_tasks_completed = @ + (IF success THEN 1 ELSE 0),
                            !.total_tasks_failed = @ + (IF success THEN 0 ELSE 1)]
         IN  /\ UpdatesFit(agents[agent_id], task.required_capabilities)
             /\ tasks' = [tasks EXCEPT ![task_id] = Finished(@, success, actual_duration)]
             /\ agents' = [agents EXCEPT ![agent_id] = recorded]
             /\ system_metrics' = update_system_metrics(counted, agents')
             /\ UNCHANGED <<nextAgentId, nextTaskId, assignment_history,
                            training_mode>>

\* QFoxController.process_task_completion
ProcessTaskCompletion(task_id, success, actual_duration) ==
    IF CompletionIgnored(task_id)
    THEN UNCHANGED ctl
    ELSE LET task == tasks[task_id]
             agent_id == task.assigned_agent
             learned == UpdateAll(agents[agent_id], task.required_capabilities,
                                  IF success THEN 1 ELSE 0)
             recorded == record_performance(learned, task_id, success,
                             actual_duration, task.complexity,
                             task.required_capabilities)
             released == [recorded EXCEPT !.current_task = None, !.status = "idle"]
             counted == [system_metrics EXCEPT
                            !.total_tasks_completed = @ + (IF success THEN 1 ELSE 0),
                            !.total_tasks_failed = @ + (IF success THEN 0 ELSE 1)]
         IN  /\ UpdatesFit(agents[agent_id], task.required_capabilities)
             /\ tasks' = [tasks EXCEPT ![task_id] = Finished(@, success, actual_duration)]
             /\ agents' = [agents EXCEPT ![agent_id] = released]
             /\ system_metrics' = update_system_metrics(counted, agents')
             /\ UNCHANGED <<nextAgentId, nextTaskId, assignment_history,
                            training_mode>>

\* --------------------------------------------------------- simulation tick
\* denominator of success probabilities
ProbDen == 10 * SCALE * LcmReq

\* values random.random() returns: 0.0 and 0.2
RandomDraws == {0, ProbDen \div 5}

\* success_prob of simulate_task_execution: the confidences of the required
\* capabilities the agent declares are summed, the sum is divided by the
\* number of required capabilities and multiplied by 1.0 - complexity * 0.1
success_prob(agent, task) ==
    LET req == task.required_capabilities
        declared == {i \in DOMAIN req : req[i] \in agent.capabilities}
        confidence_sum ==
            SumFn([i \in declared |-> get_capability_confidence(agent, req[i])],
                  declared)
    IN  confidence_sum * (LcmReq \div Len(req)) * (10 - task.complexity)

\* the controller's agents, tasks and metrics, and whether the updates made
\* so far stay within the modelled number of updates
Fields == [agents |-> agents, tasks |-> tasks, system_metrics |-> system_metrics,
           fits |-> TRUE]

\* a local variable: value is computed once and Rest is the code that reads it
Bind(value, Rest(_)) == CHOOSE result \in {Rest(v) : v \in {value}} : TRUE

\* process_task_completion as a function of the fields it reads and writes
Completion(st, task_id, success, actual_duration) ==
    IF task_id \notin DOMAIN st.tasks
    THEN st
    ELSE IF st.tasks[task_id].assigned_agent = None
    THEN st
    ELSE IF st.tasks[task_id].assigned_agent \notin DOMAIN st.agents
    THEN st
    ELSE LET task == st.tasks[task_id]
             agent_id == task.assigned_agent
             counted == [st.system_metrics EXCEPT
                            !.total_tasks_completed = @ + (IF success THEN 1 ELSE 0),
                            !.total_tasks_failed = @ + (IF success THEN 0 ELSE 1)]
         IN  Bind(UpdateAll(st.agents[agent_id], task.required_capabilities,
                            IF success THEN 1 ELSE 0),
                  LAMBDA learned :
             Bind(record_performance(learned, task_id, success,
                      actual_duration, task.complexity,
                      task.required_capabilities),
                  LAMBDA recorded :
             Bind([recorded EXCEPT !.current_task = None, !.status = "idle"],
                  LAMBDA released :
             Bind([st.agents EXCEPT ![agent_id] = released],
                  LAMBDA registry :
             Bind(update_system_metrics(counted, registry),
                  LAMBDA metrics :
                 [agents |-> registry,
                  tasks |-> [st.tasks EXCEPT
                                ![task_id] = Finished(@, success, actual_duration)],
                  system_metrics |-> metrics,
                  fits |-> st.fits /\ UpdatesFit(st.agents[agent_id],
                                                 task.required_capabilities)])))))

RECURSIVE SimulateLoop(_, _, _)
\* SimulateLoop that completes an active task whatever time has elapsed
SimulateLoopNoWait(st, active_tasks, draw) ==
    IF active_tasks = <<>>
    THEN st
    ELSE LET task_id == Head(active_tasks)
             task == st.tasks[task_id]
             elapsed_time == clock - task.started_at
         IN  IF task.started_at = NoneF
             THEN SimulateLoop(st, Tail(active_tasks), draw)
             ELSE IF task.assigned_agent \in DOMAIN st.agents
             THEN Bind(draw[task_id] < success_prob(st.agents[task.assigned_agent], task),
                       LAMBDA success :
                  Bind(Completion(st, task_id, success, elapsed_time),
                       LAMBDA completed :
                      SimulateLoop(completed, Tail(active_tasks), draw)))
             ELSE SimulateLoop(st, Tail(active_tasks), draw)

\* "for task in active_tasks": a task without a start time is skipped; one
\* whose elapsed minutes reach its estimated duration, and whose agent is
\* registered, is completed with the outcome random.random() < success_prob
SimulateLoop(st, active_tasks, draw) ==
    IF active_tasks = <<>>
    THEN st
    ELSE LET task_id == Head(active_tasks)
             task == st.tasks[task_id]
             elapsed_time == clock - task.started_at
         IN  IF task.started_at = NoneF
             THEN SimulateLoop(st, Tail(active_tasks), draw)
             ELSE IF /\ elapsed_time >= task.estimated_duration
                     /\ task.assigned_agent \in DOMAIN st.agents
             THEN Bind(draw[task_id] < success_prob(st.agents[task.assigned_agent], task),
                       LAMBDA success :
                  Bind(Completion(st, task_id, success, elapsed_time),
                       LAMBDA completed :
                      SimulateLoop(completed, Tail(active_tasks), draw)))
             ELSE SimulateLoop(st, Tail(active_tasks), draw)

\* QFoxController.start_simulation
StartSimulation ==
    /\ simulation_active' = TRUE
    /\ UNCHANGED ctl

\* QFoxController.stop_simulation
StopSimulation ==
    /\ simulation_active' = FALSE
    /\ UNCHANGED ctl

\* QFoxController.simulate_task_execution
SimulateTaskExecution ==
    IF ~simulation_active
    THEN UNCHANGED <<ctl, simulation_active>>
    ELSE LET active_tasks == {t \in DOMAIN tasks : tasks[t].status = "in_progress"}
         IN  \E draw \in [active_tasks -> RandomDraws] :
                 \E st \in {SimulateLoop(Fields, InOrder(active_tasks), draw)} :
                     /\ st.fits
                     /\ agents' = st.agents
                     /\ tasks' = st.tasks
                     /\ system_metrics' = st.system_metrics
                     /\ UNCHANGED <<nextAgentId, nextTaskId, assignment_history,
                                    training_mode, simulation_active>>

\* ----------------------------------------------------------------- snapshots
\* QFoxController.get_system_state: the dict it returns.  Agent.to_dict puts
\* the agent's own capabilities list, confidence_scores dict and
\* success_history dict into the result, and 'system_metrics' is the
\* controller's own dict, so the snapshot holds references (agents: the ids
\* of the agents whose objects it refers to; system_metrics: whether it
\* refers to the metrics dict); training_mode is a bool, held by value
GetSystemState ==
    /\ snapshot' = [held |-> TRUE, agents |-> DOMAIN agents,
                    system_metrics |-> TRUE, training_mode |-> training_mode]
    /\ UNCHANGED ctl

\* QFoxController.get_agent_status: None for an unknown id, else a dict
\* holding the same three references for that agent
GetAgentStatus(agent_id) ==
    /\ snapshot' = IF agent_id \in DOMAIN agents
                   THEN [held |-> TRUE, agents |-> {agent_id},
                         system_metrics |-> FALSE, training_mode |-> FALSE]
                   ELSE NoSnapshot
    /\ UNCHANGED ctl

\* the caller: snapshot['system_metrics']['total_tasks_created'] = value
WriteMetrics(value) ==
    /\ snapshot.held /\ snapshot.system_metrics
    /\ system_metrics' = [system_metrics EXCEPT !.total_tasks_created = value]
    /\ UNCHANGED <<agents, tasks, nextAgentId, nextTaskId, assignment_history,
                   training_mode, snapshot>>

\* the caller: snapshot['training_mode'] = value, a key of the returned dict
WriteTrainingMode(value) ==
    /\ snapshot.held /\ snapshot.system_metrics
    /\ snapshot' = [snapshot EXCEPT !.training_mode = value]
    /\ UNCHANGED ctl

\* a write through a reference to an agent's object: it reaches the
\* registry when the agent is still registered
WriteAgent(agent_id, written) ==
    /\ snapshot.held /\ agent_id \in snapshot.agents
    /\ agents' = IF agent_id \in DOMAIN agents
                 THEN [agents EXCEPT ![agent_id] = written]
                 ELSE agents
    /\ UNCHANGED <<tasks, nextAgentId, nextTaskId, assignment_history,
                   system_metrics, training_mode, snapshot>>

\* the caller: snapshot['agents'][id]['confidence_scores'][capability] = value
WriteConfidence(agent_id, capability, value) ==
    /\ agent_id \in DOMAIN agents => capability \in agents[agent_id].capabilities
    /\ WriteAgent(agent_id,
                  [agents[agent_id] EXCEPT !.confidence_scores[capability] = value])

\* the caller: snapshot['agents'][id]['success_history'][capability].append(outcome)
WriteHistory(agent_id, capability, outcome) ==
    /\ agent_id \in DOMAIN agents =>
           /\ capability \in agents[agent_id].capabilities
           /\ UpdatesFit(agents[agent_id], <<capability>>)
    /\ WriteAgent(agent_id,
                  [agents[agent_id] EXCEPT
                      !.success_history[capability] = Append(@, outcome)])

\* the caller: snapshot['agents'][id]['capabilities'].remove(capability)
WriteCapabilities(agent_id, capability) ==
    /\ agent_id \in DOMAIN agents => capability \in agents[agent_id].capabilities
    /\ WriteAgent(agent_id,
                  [agents[agent_id] EXCEPT !.capabilities = @ \ {capability}])

\* ------------------------------------------------ dashboard simulation thread
\* run_simulation, first call of an iteration: simulate_task_execution
ThreadSimulate ==
    /\ sim_thread.pc = "rest"
    /\ simulation_active
    /\ SimulateTaskExecution
    /\ sim_thread' = [sim_thread EXCEPT !.pc = "assign"]

\* assign_tasks entered: the list comprehension starts iterating
\* self.tasks.values()
ThreadScan ==
    /\ sim_thread.pc = "assign"
    /\ sim_thread' = [sim_thread EXCEPT
                          !.pc = "scan", !.size = Cardinality(DOMAIN tasks)]
    /\ UNCHANGED <<ctl, simulation_active>>

\* the iteration ends: a dict that changed size since it began raises
\* RuntimeError, which run_simulation does not catch, so the thread ends;
\* otherwise the two lists are built and sorted, and the call returns at
\* once when either is empty
ThreadLists ==
    /\ sim_thread.pc = "scan"
    /\ sim_thread' =
           IF Cardinality(DOMAIN tasks) # sim_thread.size
           THEN [ThreadAtRest EXCEPT !.pc = "crashed"]
           ELSE LET pending_tasks ==
                        {t \in DOMAIN tasks : tasks[t].status = "pending"}
                    available_agents ==
                        {a \in DOMAIN agents : agents[a].status = "idle"}
                IN  IF pending_tasks = {} \/ available_agents = {}
                    THEN ThreadAtRest
                    ELSE [pc |-> "commit", size |-> sim_thread.size,
                          pending_tasks |-> SortByPriority(pending_tasks),
                          available_agents |-> InOrder(available_agents)]
    /\ UNCHANGED <<ctl, simulation_active>>

\* one iteration of "for task in pending_tasks" of assign_tasks
ThreadCommit ==
    /\ sim_thread.pc = "commit"
    /\ LET t == Head(sim_thread.pending_tasks)
           best == BestAgent(sim_thread.available_agents, tasks[t], None, 0)
           committed == best.agent # None /\ best.score > Threshold
           rest == Tail(sim_thread.pending_tasks)
       IN  /\ IF committed
              THEN /\ tasks' = [tasks EXCEPT ![t] =
                                   [@ EXCEPT !.assigned_agent = best.agent,
                                             !.status = "in_progress",
                                             !.started_at = clock]]
                   /\ agents' = [agents EXCEPT ![best.agent] =
                                    [@ EXCEPT !.current_task = t,
                                              !.status = "busy"]]
                   /\ assignment_history' =
                          Append(assignment_history,
                                 [task_id |-> t, agent_id |-> best.agent,
                                  score |-> best.score])
              ELSE UNCHANGED <<tasks, agents, assignment_history>>
           /\ sim_thread' =
                  IF rest = <<>>
                  THEN ThreadAtRest
                  ELSE [sim_thread EXCEPT
                           !.pending_tasks = rest,
                           !.available_agents =
                               IF committed
                               THEN ListRemove(@, best.agent)
                               ELSE @]
    /\ UNCHANGED <<nextAgentId, nextTaskId, system_metrics, training_mode,
                   simulation_active>>

\* -------------------------------------------- concurrent assign_tasks calls
\* a thread that is about to execute assign_tasks (threads holds one record
\* per thread: where it stands and the local lists of its call)
Entering == [pc |-> "assign", pending_tasks |-> <<>>, available_agents |-> <<>>]

\* a thread calls assign_tasks
EnterAssignTasks ==
    /\ threads' = Append(threads, Entering)
    /\ UNCHANGED <<ctl, simulation_active>>

\* the thread builds and sorts its two lists; the call returns at once when
\* either is empty
CallerLists(i) ==
    /\ threads[i].pc = "assign"
    /\ LET pending_tasks == {t \in DOMAIN tasks : tasks[t].status = "pending"}
           available_agents == {a \in DOMAIN agents : agents[a].status = "idle"}
       IN  threads' = [threads EXCEPT ![i] =
                          IF pending_tasks = {} \/ available_agents = {}
                          THEN [Entering EXCEPT !.pc = "returned"]
                          ELSE [pc |-> "commit",
                                pending_tasks |-> SortByPriority(pending_tasks),
                                available_agents |-> InOrder(available_agents)]]
    /\ UNCHANGED <<ctl, simulation_active>>

\* the thread runs one iteration of "for task in pending_tasks" on its own
\* lists and on the task and agent objects as they are now
CallerCommit(i) ==
    /\ threads[i].pc = "commit"
    /\ LET t == Head(threads[i].pending_tasks)
           best == BestAgent(threads[i].available_agents, tasks[t], None, 0)
           committed == best.agent # None /\ best.score > Threshold
           rest == Tail(threads[i].pending_tasks)
       IN  /\ IF committed
              THEN /\ tasks' = [tasks EXCEPT ![t] =
                                   [@ EXCEPT !.assigned_agent = best.agent,
                                             !.status = "in_progress",
                                             !.started_at = clock]]
                   /\ agents' = [agents EXCEPT ![best.agent] =
                                    [@ EXCEPT !.current_task = t,
                                              !.status = "busy"]]
                   /\ assignment_history' =
                          Append(assignment_history,
                                 [task_id |-> t, agent_id |-> best.agent,
                                  score |-> best.score])
              ELSE UNCHANGED <<tasks, agents, assignment_history>>
           /\ threads' = [threads EXCEPT ![i] =
                  IF rest = <<>>
                  THEN [Entering EXCEPT !.pc = "returned"]
                  ELSE [@ EXCEPT
                           !.pending_tasks = rest,
                           !.available_agents =
                               IF committed
                               THEN ListRemove(@, best.agent)
                               ELSE @]]
    /\ UNCHANGED <<nextAgentId, nextTaskId, system_metrics, training_mode,
                   simulation_active>>

\* ------------------------------------------------- simulation loop threads
\* a thread started on run_simulation, about to test its while condition
Started == [pc |-> "while"]

\* start_simulation callback: controller.start_simulation(), then
\* start_simulation_thread(), which clears the stop flag and starts a new
\* thread whether or not one is running
ClickStart ==
    /\ StartSimulation
    /\ stop_simulation' = FALSE
    /\ threads' = Append(threads, Started)

\* stop_simulation callback: controller.stop_simulation(), then
\* stop_simulation_thread(), which sets the stop flag and joins the thread
\* started last for at most one second
ClickStop ==
    /\ StopSimulation
    /\ stop_simulation' = TRUE
    /\ UNCHANGED threads

\* "while not stop_simulation:" and "if controller.simulation_active:"
LoopTest(i) ==
    /\ threads[i].pc = "while"
    /\ threads' = [threads EXCEPT ![i].pc =
                       IF stop_simulation THEN "exited"
                       ELSE IF simulation_active THEN "simulate"
                       ELSE "sleep"]
    /\ UNCHANGED <<ctl, simulation_active, stop_simulation>>

\* controller.simulate_task_execution()
LoopSimulate(i) ==
    /\ threads[i].pc = "simulate"
    /\ SimulateTaskExecution
    /\ threads' = [threads EXCEPT ![i].pc = "assign"]
    /\ UNCHANGED stop_simulation

\* controller.assign_tasks()
LoopAssign(i) ==
    /\ threads[i].pc = "assign"
    /\ AssignTasks
    /\ threads' = [threads EXCEPT ![i].pc = "sleep"]
    /\ UNCHANGED <<simulation_active, stop_simulation>>

\* time.sleep(2) returns
LoopSleep(i) ==
    /\ threads[i].pc = "sleep"
    /\ threads' = [threads EXCEPT ![i].pc = "while"]
    /\ UNCHANGED <<ctl, simulation_active, stop_simulation>>

\* the start_simulation callback: controller.start_simulation(); of the
\* threads it starts SpecDashboard follows one, and a further click
\* replaces a thread that has ended
CallbackStart ==
    /\ StartSimulation
    /\ sim_thread' = IF sim_thread.pc = "crashed" THEN ThreadAtRest ELSE sim_thread

\* ------------------------------------------------------------------ removal
\* RemoveAgent that puts the current task back to pending but keeps its assignee
RemoveAgentKeepsAssignee(agent_id) ==
    IF agent_id \in DOMAIN agents
    THEN LET current == agents[agent_id].current_task
         IN  /\ tasks' = IF current # None /\ current \in DOMAIN tasks
                          THEN [tasks EXCEPT ![current] =
                                   [@ EXCEPT !.status = "pending"]]
                          ELSE tasks
             /\ agents' = [a \in DOMAIN agents \ {agent_id} |-> agents[a]]
             /\ UNCHANGED <<nextAgentId, nextTaskId, assignment_history,
                            system_metrics, training_mode>>
    ELSE UNCHANGED ctl

\* the value remove_agent returns: True when the agent was registered
remove_agent_returns(agent_id) == agent_id \in DOMAIN agents

\* RemoveAgent that deletes the agent without touching its current task
RemoveAgentKeepsTask(agent_id) ==
    IF agent_id \in DOMAIN agents
    THEN /\ agents' = [a \in DOMAIN agents \ {agent_id} |-> agents[a]]
         /\ UNCHANGED <<tasks, nextAgentId, nextTaskId, assignment_history,
                        system_metrics, training_mode>>
    ELSE UNCHANGED ctl

\* QFoxController.remove_agent
RemoveAgent(agent_id) ==
    IF agent_id \in DOMAIN agents
    THEN LET current == agents[agent_id].current_task
         IN  /\ tasks' = IF current # None /\ current \in DOMAIN tasks
                          THEN [tasks EXCEPT ![current] =
                                   [@ EXCEPT !.status = "pending",
                                             !.assigned_agent = None]]
                          ELSE tasks
             /\ agents' = [a \in DOMAIN agents \ {agent_id} |-> agents[a]]
             /\ UNCHANGED <<nextAgentId, nextTaskId, assignment_history,
                            system_metrics, training_mode>>
    ELSE UNCHANGED ctl

\* RemoveTask that deletes the task without releasing its agent
RemoveTaskKeepsAgentBusy(task_id) ==
    IF task_id \in DOMAIN tasks
    THEN /\ tasks' = [t \in DOMAIN tasks \ {task_id} |-> tasks[t]]
         /\ UNCHANGED <<agents, nextAgentId, nextTaskId, assignment_history,
                        system_metrics, training_mode>>
    ELSE UNCHANGED ctl

\* RemoveTask that also drops the removed task's assignment records
RemoveTaskPrunesHistory(task_id) ==
    IF task_id \in DOMAIN tasks
    THEN LET assignee == tasks[task_id].assigned_agent
         IN  /\ agents' = IF assignee # None /\ assignee \in DOMAIN agents
                           THEN [agents EXCEPT ![assignee] =
                                    [@ EXCEPT !.current_task = None,
                                              !.status = "idle"]]
                           ELSE agents
             /\ tasks' = [t \in DOMAIN tasks \ {task_id} |-> tasks[t]]
             /\ assignment_history' =
                    SelectSeq(assignment_history, LAMBDA r : r.task_id # task_id)
             /\ UNCHANGED <<nextAgentId, nextTaskId, system_metrics, training_mode>>
    ELSE UNCHANGED ctl

\* the value remove_task returns: True when the task was known
remove_task_returns(task_id) == task_id \in DOMAIN tasks

\* QFoxController.remove_task
RemoveTask(task_id) ==
    IF task_id \in DOMAIN tasks
    THEN LET assignee == tasks[task_id].assigned_agent
         IN  /\ agents' = IF assignee # None /\ assignee \in DOMAIN agents
                           THEN [agents EXCEPT ![assignee] =
                                    [@ EXCEPT !.current_task = None,
                                              !.status = "idle"]]
                           ELSE agents
             /\ tasks' = [t \in DOMAIN tasks \ {task_id} |-> tasks[t]]
             /\ UNCHANGED <<nextAgentId, nextTaskId, assignment_history,
                            system_metrics, training_mode>>
    ELSE UNCHANGED ctl

\* ------------------------------------------------------------ training mode
\* QFoxController.toggle_training_mode
ToggleTrainingMode ==
    /\ training_mode' = ~training_mode
    /\ agents' = [a \in DOMAIN agents |->
                     [agents[a] EXCEPT !.learning_rate =
                         IF training_mode' THEN 3 ELSE 1]]
    /\ UNCHANGED <<tasks, nextAgentId, nextTaskId, assignment_history,
                   system_metrics>>

\* a direct call of Agent.update_confidence on a registered agent
UpdateConfidence(agent_id, capability, outcome) ==
    /\ agent_id \in DOMAIN agents
    /\ UpdatesFit(agents[agent_id], <<capability>>)
    /\ agents' = [agents EXCEPT ![agent_id] = update_confidence(@, capability, outcome)]
    /\ UNCHANGED <<tasks, nextAgentId, nextTaskId, assignment_history,
                   system_metrics, training_mode>>

\* a direct call of Agent.update_confidence on a registered agent, any number
\* of times.  Past MaxUpd updates the new confidence is rounded down to a
\* multiple of 1/SCALE (a float is rounded too); the outcome history is exact.
PushOutcome(agent_id, capability, outcome) ==
    /\ agent_id \in DOMAIN agents
    /\ agents' = [agents EXCEPT ![agent_id] = update_confidence(@, capability, outcome)]
    /\ UNCHANGED <<tasks, nextAgentId, nextTaskId, assignment_history,
                   system_metrics, training_mode>>

\* ------------------------------------------------------------ specifications
\* a driver that never starts the simulation, whose clock stands still while
\* it makes its calls, and that runs no thread and holds no snapshot
Quiet ==
    UNCHANGED <<simulation_active, clock, sim_thread, snapshot,
                stop_simulation, threads>>

\* the driver's log after a call: written by a logging driver, left alone
\* by the others
Log(logging, op, id) ==
    /\ lastOp' = IF logging THEN Call(op, id) ELSE lastOp
    /\ UNCHANGED outcome_log
    /\ Quiet

\* the controller's operations as a driver calls them: at most na agents and
\* nt tasks are ever created, at most nc completions take effect, and
\* actual durations are drawn from durations
Ops(na, nt, nc, durations, logging) ==
    \/ /\ nextAgentId <= na
       /\ \E caps \in AgentCapSets : AddAgent(caps)
       /\ Log(logging, "add_agent", nextAgentId)
    \/ /\ nextTaskId <= nt
       /\ \E i \in TaskInputs :
              CreateTask(i.required_capabilities, i.complexity, i.priority,
                         i.estimated_duration)
       /\ Log(logging, "create_task", nextTaskId)
    \/ /\ AssignTasks
       /\ Log(logging, "assign_tasks", None)
    \/ \E t \in TaskIds, s \in BOOLEAN, d \in durations :
          /\ ~CompletionIgnored(t) =>
                 system_metrics.total_tasks_completed
                     + system_metrics.total_tasks_failed < nc
          /\ ProcessTaskCompletion(t, s, d)
          /\ Log(logging, "process_task_completion", t)
    \/ \E a \in AgentIds :
          /\ RemoveAgent(a)
          /\ Log(logging, "remove_agent", a)
    \/ \E t \in TaskIds :
          /\ RemoveTask(t)
          /\ Log(logging, "remove_task", t)
    \/ /\ ToggleTrainingMode
       /\ Log(logging, "toggle_training_mode", None)

\* every operation, two agents and two tasks
Next == Ops(MaxAgents, MaxTasks, MaxCompletions, {4}, FALSE)

Spec == Init /\ [][Next]_vars

\* one agent working through several tasks
NextSolo == Ops(SoloAgents, SoloTasks, SoloCompletions, Durations, FALSE)

SpecSolo == Init /\ [][NextSolo]_vars

\* the capability ledger driven directly as well as through completions
NextLedger ==
    \/ Ops(LedgerAgents, LedgerTasks, LedgerCompletions, Durations, FALSE)
    \/ \E a \in DOMAIN agents, c \in Caps, o \in {0, 1} :
          /\ UpdateConfidence(a, c, o)
          /\ UNCHANGED <<lastOp, outcome_log>> /\ Quiet

SpecLedger == Init /\ [][NextLedger]_vars

\* a driver that logs each call it makes, so that a call the controller
\* ignores is still a step
NextProbe == Ops(ProbeAgents, ProbeTasks, ProbeCompletions, Durations, TRUE)

SpecProbe == Init /\ [][NextProbe]_vars

\* agents that declare one or both of the two capabilities a task requires
NextMixed ==
    \/ Ops(MixedAgents, MixedTasks, MixedCompletions, {4}, FALSE)
    \/ /\ nextTaskId <= MixedTasks
       /\ \E i \in MixedTaskInputs :
              CreateTask(i.required_capabilities, i.complexity, i.priority,
                         i.estimated_duration)
       /\ UNCHANGED <<lastOp, outcome_log>> /\ Quiet

SpecMixed == Init /\ [][NextMixed]_vars

\* a run of three completions: a driver that adds and removes agents, creates
\* and assigns tasks and reports completions
NextTally ==
    \/ /\ nextAgentId <= TallyAgents
       /\ \E caps \in AgentCapSets : AddAgent(caps)
       /\ UNCHANGED <<lastOp, outcome_log>> /\ Quiet
    \/ /\ nextTaskId <= TallyTasks
       /\ \E i \in TaskInputs :
              CreateTask(i.required_capabilities, i.complexity, i.priority,
                         i.estimated_duration)
       /\ UNCHANGED <<lastOp, outcome_log>> /\ Quiet
    \/ /\ AssignTasks
       /\ UNCHANGED <<lastOp, outcome_log>> /\ Quiet
    \/ \E t \in DOMAIN tasks, s \in BOOLEAN :
          /\ ~CompletionIgnored(t)
          /\ system_metrics.total_tasks_completed
                 + system_metrics.total_tasks_failed < TallyCompletions
          /\ ProcessTaskCompletion(t, s, 4)
          /\ UNCHANGED <<lastOp, outcome_log>> /\ Quiet
    \/ \E a \in DOMAIN agents :
          /\ RemoveAgent(a)
          /\ UNCHANGED <<lastOp, outcome_log>> /\ Quiet

SpecTally == Init /\ [][NextTally]_vars

\* two agents and one task, under a driver that logs each call
NextHandover ==
    Ops(HandoverAgents, HandoverTasks, HandoverCompletions, Durations, TRUE)

SpecHandover == Init /\ [][NextHandover]_vars

\* specialists: agents declaring "x" only or "y" only, and tasks requiring
\* one of the capabilities, both, or none
NextApart ==
    \/ /\ nextAgentId <= ApartAgents
       /\ \E caps \in ApartCapSets : AddAgent(caps)
       /\ UNCHANGED <<lastOp, outcome_log>> /\ Quiet
    \/ /\ nextTaskId <= ApartTasks
       /\ \E i \in ApartTaskInputs :
              CreateTask(i.required_capabilities, i.complexity, i.priority,
                         i.estimated_duration)
       /\ UNCHANGED <<lastOp, outcome_log>> /\ Quiet
    \/ /\ AssignTasks
       /\ UNCHANGED <<lastOp, outcome_log>> /\ Quiet
    \/ \E t \in DOMAIN tasks, s \in BOOLEAN :
          /\ ~CompletionIgnored(t)
          /\ system_metrics.total_tasks_completed
                 + system_metrics.total_tasks_failed < ApartCompletions
          /\ ProcessTaskCompletion(t, s, 4)
          /\ UNCHANGED <<lastOp, outcome_log>> /\ Quiet
    \/ \E a \in DOMAIN agents :
          /\ RemoveAgent(a)
          /\ UNCHANGED <<lastOp, outcome_log>> /\ Quiet

SpecApart == Init /\ [][NextApart]_vars

\* the simulation: a driver that logs its calls, starts and stops the
\* simulation and calls the tick, while time passes
NextSim ==
    \/ /\ nextAgentId <= SimAgents
       /\ \E caps \in AgentCapSets : AddAgent(caps)
       /\ Log(TRUE, "add_agent", nextAgentId)
    \/ /\ nextTaskId <= SimTasks
       /\ \E i \in SimTaskInputs :
              CreateTask(i.required_capabilities, i.complexity, i.priority,
                         i.estimated_duration)
       /\ Log(TRUE, "create_task", nextTaskId)
    \/ /\ AssignTasks
       /\ Log(TRUE, "assign_tasks", None)
    \/ /\ StartSimulation
       /\ lastOp' = Call("start_simulation", None)
       /\ UNCHANGED <<outcome_log, stop_simulation, threads, clock, sim_thread, snapshot>>
    \/ /\ StopSimulation
       /\ lastOp' = Call("stop_simulation", None)
       /\ UNCHANGED <<outcome_log, stop_simulation, threads, clock, sim_thread, snapshot>>
    \/ /\ SimulateTaskExecution
       /\ lastOp' = Call("simulate_task_execution", None)
       /\ UNCHANGED <<outcome_log, stop_simulation, threads, clock, sim_thread, snapshot>>
    \/ /\ clock < MaxClock
       /\ clock' = clock + 1
       /\ UNCHANGED <<ctl, lastOp, outcome_log, stop_simulation, threads, simulation_active, sim_thread,
                      snapshot>>

SpecSim == Init /\ [][NextSim]_vars

\* a caller that takes snapshots and writes into them, logging each call
\* and each write
NextSnapshot ==
    \/ /\ nextAgentId <= SnapAgents
       /\ \E caps \in AgentCapSets : AddAgent(caps)
       /\ Log(TRUE, "add_agent", nextAgentId)
    \/ /\ nextTaskId <= SnapTasks
       /\ \E i \in TaskInputs :
              CreateTask(i.required_capabilities, i.complexity, i.priority,
                         i.estimated_duration)
       /\ Log(TRUE, "create_task", nextTaskId)
    \/ /\ AssignTasks
       /\ Log(TRUE, "assign_tasks", None)
    \/ \E t \in DOMAIN tasks, s \in BOOLEAN :
          /\ ~CompletionIgnored(t)
          /\ system_metrics.total_tasks_completed
                 + system_metrics.total_tasks_failed < SnapCompletions
          /\ ProcessTaskCompletion(t, s, 4)
          /\ Log(TRUE, "process_task_completion", t)
    \/ \E a \in DOMAIN agents :
          /\ RemoveAgent(a)
          /\ Log(TRUE, "remove_agent", a)
    \/ /\ GetSystemState
       /\ lastOp' = Call("get_system_state", None)
       /\ UNCHANGED <<outcome_log, stop_simulation, threads, simulation_active, clock, sim_thread>>
    \/ \E a \in AgentIds :
          /\ GetAgentStatus(a)
          /\ lastOp' = Call("get_agent_status", a)
          /\ UNCHANGED <<outcome_log, stop_simulation, threads, simulation_active, clock, sim_thread>>
    \/ /\ WriteMetrics(0)
       /\ lastOp' = Call("write", None)
       /\ UNCHANGED <<outcome_log, stop_simulation, threads, simulation_active, clock, sim_thread>>
    \/ \E value \in BOOLEAN :
          /\ WriteTrainingMode(value)
          /\ lastOp' = Call("write", None)
          /\ UNCHANGED <<outcome_log, stop_simulation, threads, simulation_active, clock, sim_thread>>
    \/ \E a \in snapshot.agents, c \in Caps :
          /\ WriteConfidence(a, c, SCALE)
          /\ lastOp' = Call("write", a)
          /\ UNCHANGED <<outcome_log, stop_simulation, threads, simulation_active, clock, sim_thread>>
    \/ \E a \in snapshot.agents, c \in Caps :
          /\ WriteHistory(a, c, 1)
          /\ lastOp' = Call("write", a)
          /\ UNCHANGED <<outcome_log, stop_simulation, threads, simulation_active, clock, sim_thread>>
    \/ \E a \in snapshot.agents, c \in Caps :
          /\ WriteCapabilities(a, c)
          /\ lastOp' = Call("write", a)
          /\ UNCHANGED <<outcome_log, stop_simulation, threads, simulation_active, clock, sim_thread>>

SpecSnapshot == Init /\ [][NextSnapshot]_vars

\* the dashboard: the simulation thread runs simulate_task_execution and
\* assign_tasks in a loop while callbacks, served by other threads, call
\* the controller; no lock is taken by either side
NextDashboard ==
    \/ /\ ThreadSimulate
       /\ UNCHANGED <<lastOp, outcome_log, stop_simulation, threads, clock, snapshot>>
    \/ /\ ThreadScan
       /\ UNCHANGED <<lastOp, outcome_log, stop_simulation, threads, clock, snapshot>>
    \/ /\ ThreadLists
       /\ UNCHANGED <<lastOp, outcome_log, stop_simulation, threads, clock, snapshot>>
    \/ /\ ThreadCommit
       /\ UNCHANGED <<lastOp, outcome_log, stop_simulation, threads, clock, snapshot>>
    \/ /\ CallbackStart
       /\ UNCHANGED <<lastOp, outcome_log, stop_simulation, threads, clock, snapshot>>
    \/ /\ StopSimulation
       /\ UNCHANGED <<lastOp, outcome_log, stop_simulation, threads, clock, sim_thread, snapshot>>
    \/ /\ ToggleTrainingMode
       /\ UNCHANGED <<lastOp, outcome_log>> /\ Quiet
    \/ /\ nextAgentId <= DashAgents
       /\ \E caps \in AgentCapSets : AddAgent(caps)
       /\ UNCHANGED <<lastOp, outcome_log>> /\ Quiet
    \/ /\ nextTaskId <= DashTasks
       /\ \E i \in SimTaskInputs :
              CreateTask(i.required_capabilities, i.complexity, i.priority,
                         i.estimated_duration)
       /\ UNCHANGED <<lastOp, outcome_log>> /\ Quiet
    \/ /\ clock < DashClock
       /\ clock' = clock + 1
       /\ UNCHANGED <<ctl, lastOp, outcome_log, stop_simulation, threads, simulation_active, sim_thread,
                      snapshot>>

SpecDashboard == Init /\ [][NextDashboard]_vars

\* assign_tasks called from several threads without a lock, while agents
\* are added and tasks created
NextRace ==
    \/ /\ nextAgentId <= RaceAgents
       /\ \E caps \in AgentCapSets : AddAgent(caps)
       /\ UNCHANGED <<lastOp, outcome_log>> /\ Quiet
    \/ /\ nextTaskId <= RaceTasks
       /\ \E i \in TaskInputs :
              CreateTask(i.required_capabilities, i.complexity, i.priority,
                         i.estimated_duration)
       /\ UNCHANGED <<lastOp, outcome_log>> /\ Quiet
    \/ /\ Len(threads) < RaceCallers
       /\ EnterAssignTasks
       /\ UNCHANGED <<lastOp, outcome_log, clock, sim_thread, snapshot,
                      stop_simulation>>
    \/ \E i \in DOMAIN threads :
          /\ CallerLists(i)
          /\ UNCHANGED <<lastOp, outcome_log, clock, sim_thread, snapshot,
                         stop_simulation>>
    \/ \E i \in DOMAIN threads :
          /\ CallerCommit(i)
          /\ UNCHANGED <<lastOp, outcome_log, clock, sim_thread, snapshot,
                         stop_simulation>>

SpecRace == Init /\ [][NextRace]_vars

\* Start and Stop clicks on the dashboard and the loop threads they start
NextLoops ==
    \/ /\ nextAgentId <= LoopAgents
       /\ \E caps \in AgentCapSets : AddAgent(caps)
       /\ UNCHANGED <<lastOp, outcome_log>> /\ Quiet
    \/ /\ nextTaskId <= LoopTasks
       /\ \E i \in SimTaskInputs :
              CreateTask(i.required_capabilities, i.complexity, i.priority,
                         i.estimated_duration)
       /\ UNCHANGED <<lastOp, outcome_log>> /\ Quiet
    \/ /\ Len(threads) < LoopStarts
       /\ ClickStart
       /\ UNCHANGED <<lastOp, outcome_log, clock, sim_thread, snapshot>>
    \/ /\ ClickStop
       /\ UNCHANGED <<lastOp, outcome_log, clock, sim_thread, snapshot>>
    \/ \E i \in DOMAIN threads :
          /\ LoopTest(i)
          /\ UNCHANGED <<lastOp, outcome_log, clock, sim_thread, snapshot>>
    \/ \E i \in DOMAIN threads :
          /\ LoopSimulate(i)
          /\ UNCHANGED <<lastOp, outcome_log, clock, sim_thread, snapshot>>
    \/ \E i \in DOMAIN threads :
          /\ LoopAssign(i)
          /\ UNCHANGED <<lastOp, outcome_log, clock, sim_thread, snapshot>>
    \/ \E i \in DOMAIN threads :
          /\ LoopSleep(i)
          /\ UNCHANGED <<lastOp, outcome_log, clock, sim_thread, snapshot>>
    \/ /\ clock < MaxClock
       /\ clock' = clock + 1
       /\ UNCHANGED <<ctl, lastOp, outcome_log, simulation_active, sim_thread,
                      snapshot, stop_simulation, threads>>

SpecLoops == Init /\ [][NextLoops]_vars

\* one outcome history filled past its cap: a driver that adds agents and
\* calls update_confidence for capability "x", recording each call
NextRing ==
    \/ /\ nextAgentId <= RingAgents
       /\ \E caps \in AgentCapSets : AddAgent(caps)
       /\ UNCHANGED <<lastOp, outcome_log>> /\ Quiet
    \/ \E a \in DOMAIN agents, o \in {0, 1} :
          /\ Len(outcome_log) < MaxPushes
          /\ PushOutcome(a, "x", o)
          /\ outcome_log' = Append(outcome_log, Pushed(a, "x", o))
          /\ UNCHANGED lastOp /\ Quiet

SpecRing == Init /\ [][NextRing]_vars

\* ------------------------------------------------------------------ claims
InProgress(t) == t \in DOMAIN tasks /\ tasks[t].status = "in_progress"

\* C1: one assign_tasks call never commits the same agent to two tasks, and
\* commits only agents that were idle and tasks that were pending when the
\* call began.  The commits of a call are the records it appends to
\* assignment_history; every task or agent the call changes is one of them.
C1_AssignCommits ==
    [][AssignTasks =>
        LET new == SubSeq(assignment_history', Len(assignment_history) + 1,
                          Len(assignment_history'))
        IN  /\ \A i, j \in DOMAIN new :
                   i # j => /\ new[i].agent_id # new[j].agent_id
                            /\ new[i].task_id # new[j].task_id
            /\ \A i \in DOMAIN new :
                   /\ new[i].agent_id \in DOMAIN agents
                   /\ agents[new[i].agent_id].status = "idle"
                   /\ new[i].task_id \in DOMAIN tasks
                   /\ tasks[new[i].task_id].status = "pending"
                   /\ tasks'[new[i].task_id].status = "in_progress"
                   /\ tasks'[new[i].task_id].assigned_agent = new[i].agent_id
                   /\ agents'[new[i].agent_id].status = "busy"
                   /\ agents'[new[i].agent_id].current_task = new[i].task_id
            /\ \A t \in DOMAIN tasks :
                   tasks'[t] # tasks[t] => \E i \in DOMAIN new : new[i].task_id = t
            /\ \A a \in DOMAIN agents :
                   agents'[a] # agents[a] => \E i \in DOMAIN new : new[i].agent_id = a
    ]_vars

\* two tasks are in progress on two different busy agents, neither of which
\* has worked before: assign_tasks has committed both
C1_Witness ==
    \E t1, t2 \in DOMAIN tasks :
        /\ t1 # t2
        /\ InProgress(t1) /\ InProgress(t2)
        /\ tasks[t1].assigned_agent # tasks[t2].assigned_agent
        /\ \A t \in {t1, t2} :
               /\ tasks[t].assigned_agent \in DOMAIN agents
               /\ agents[tasks[t].assigned_agent].status = "busy"
               /\ agents[tasks[t].assigned_agent].current_task = t
        /\ Len(assignment_history) = 2

\* C2: after any sequence of controller operations, no agent id is the
\* assigned_agent of two tasks that are both in progress.
C2_OneInProgressTaskPerAgent ==
    \A t1, t2 \in DOMAIN tasks :
        (t1 # t2 /\ InProgress(t1) /\ InProgress(t2))
            => tasks[t1].assigned_agent # tasks[t2].assigned_agent

\* C3: for every registered agent, current_task is set iff the agent is
\* busy, and a busy agent's current_task is an existing in-progress task
\* assigned to that agent.
C3_AgentCurrentTask ==
    \A a \in DOMAIN agents :
        /\ (agents[a].current_task # None) <=> (agents[a].status = "busy")
        /\ agents[a].status = "busy" =>
               /\ InProgress(agents[a].current_task)
               /\ tasks[agents[a].current_task].assigned_agent = a

\* an agent is busy on a task while another agent has been released by a
\* completion
C3_Witness ==
    \E a, b \in DOMAIN agents :
        /\ agents[a].status = "busy"
        /\ InProgress(agents[a].current_task)
        /\ agents[b].status = "idle"
        /\ Len(agents[b].performance_history) > 0

\* C4: every in-progress task's assigned_agent is registered, busy, and has
\* current_task equal to that task.
C4_NoOrphanInProgress ==
    \A t \in DOMAIN tasks :
        tasks[t].status = "in_progress" =>
            /\ tasks[t].assigned_agent \in DOMAIN agents
            /\ agents[tasks[t].assigned_agent].status = "busy"
            /\ agents[tasks[t].assigned_agent].current_task = t

\* C5: for every task, assigned_agent is set iff the status is in_progress,
\* completed or failed; a pending task has no assignee, also after its
\* agent was removed.
C5_AssigneeIffStarted ==
    \A t \in DOMAIN tasks :
        (tasks[t].assigned_agent # None)
            <=> (tasks[t].status \in {"in_progress", "completed", "failed"})

\* a task that was started is pending again, without assignee: its agent
\* was removed
C5_Witness ==
    \E t \in DOMAIN tasks :
        /\ tasks[t].status = "pending"
        /\ tasks[t].started_at # NoneF
        /\ tasks[t].assigned_agent = None

\* C6: a task's status changes only pending -> in_progress (assign_tasks),
\* in_progress -> completed or failed (process_task_completion) or
\* in_progress -> pending (removal of its agent); a completed or failed task
\* never changes status again.
C6_TaskLifecycle ==
    [][\A t \in DOMAIN tasks :
          t \in DOMAIN tasks' =>
              LET old == tasks[t].status
                  new == tasks'[t].status
              IN  \/ new = old
                  \/ old = "pending" /\ new = "in_progress" /\ AssignTasks
                  \/ /\ old = "in_progress"
                     /\ new \in {"completed", "failed"}
                     /\ \E s \in BOOLEAN, d \in Durations :
                            ProcessTaskCompletion(t, s, d)
                  \/ /\ old = "in_progress"
                     /\ new = "pending"
                     /\ \E a \in AgentIds : RemoveAgent(a)
    ]_vars

\* the cases in which process_task_completion(t, ..) is to do nothing
C7_Case(t) ==
    IF t \notin DOMAIN tasks
    THEN TRUE
    ELSE IF tasks[t].assigned_agent = None
         THEN TRUE
         ELSE tasks[t].assigned_agent \notin DOMAIN agents

C8_Post(t, a, success, d) ==
    /\ tasks'[t].status = (IF success THEN "completed" ELSE "failed")
    /\ tasks'[t].success_score = (IF success THEN 1 ELSE 0)
    /\ tasks'[t].assigned_agent = a
    /\ tasks'[t].actual_duration = d
    /\ agents'[a].status = "idle"
    /\ agents'[a].current_task = None
    /\ Len(agents'[a].performance_history) = Len(agents[a].performance_history) + 1
    /\ SubSeq(agents'[a].performance_history, 1, Len(agents[a].performance_history))
           = agents[a].performance_history
    /\ agents'[a].performance_history[Len(agents'[a].performance_history)].task_id = t
    /\ agents'[a].total_tasks_completed
           = agents[a].total_tasks_completed + (IF success THEN 1 ELSE 0)
    /\ agents'[a].total_tasks_failed
           = agents[a].total_tasks_failed + (IF success THEN 0 ELSE 1)

\* C8: process_task_completion(t, success, d) on a task assigned to a
\* registered agent A leaves the task completed with success_score 1.0 or
\* failed with 0.0, assigned_agent still A, actual_duration d; A idle with
\* no current task, one more performance record, and exactly one of A's two
\* counters one higher.
C8_CompletionEffect ==
    [][\A t \in DOMAIN tasks, s \in BOOLEAN, d \in Durations :
          (ProcessTaskCompletion(t, s, d) /\ ~C7_Case(t))
              => C8_Post(t, tasks[t].assigned_agent, s, d)
    ]_vars

\* a task is completed with success_score 1.0 and its agent, still
\* registered, is idle again with the task in its performance history
C8_Witness ==
    \E t \in DOMAIN tasks :
        /\ tasks[t].status = "completed"
        /\ tasks[t].success_score = 1
        /\ tasks[t].assigned_agent \in DOMAIN agents
        /\ LET agent == agents[tasks[t].assigned_agent]
           IN  /\ agent.status = "idle"
               /\ agent.current_task = None
               /\ agent.total_tasks_completed = 1
               /\ Len(agent.performance_history) = 1
               /\ agent.performance_history[1].task_id = t

\* clamp(c + r*(o - c), 0, 1) on the model's numbers
C9_Ema(c, r, o) ==
    LET v == (10 * c + r * (o * SCALE - c)) \div 10
    IN  IF v < 0 THEN 0 ELSE IF v > SCALE THEN SCALE ELSE v

\* C9: a completion replaces the confidence c of every required capability
\* the assigned agent declares by clamp(c + r*(o - c), 0, 1), with r the
\* agent's learning rate and o = 1 for success, 0 for failure.
C9_CompletionEma ==
    [][\A t \in DOMAIN tasks, s \in BOOLEAN, d \in Durations :
          (ProcessTaskCompletion(t, s, d) /\ ~C7_Case(t))
              => LET a == tasks[t].assigned_agent
                 IN  \A c \in Range(tasks[t].required_capabilities)
                                \cap agents[a].capabilities :
                         agents'[a].confidence_scores[c]
                             = C9_Ema(agents[a].confidence_scores[c],
                                      agents[a].learning_rate,
                                      IF s THEN 1 ELSE 0)
    ]_vars

\* C10: every confidence value of every agent lies in [0, 1].
C10_ConfidenceInRange ==
    \A a \in DOMAIN agents :
        \A c \in DOMAIN agents[a].confidence_scores :
            /\ agents[a].confidence_scores[c] >= 0
            /\ agents[a].confidence_scores[c] <= SCALE

\* at the training rate 0.3 one capability of an agent has been pulled up
\* from the initial 0.5 to 0.65 and another one down to 0.35
C10_Witness ==
    \E a \in DOMAIN agents :
        /\ agents[a].learning_rate = 3
        /\ \E c1, c2 \in agents[a].capabilities :
               /\ agents[a].success_history[c1] = <<1>>
               /\ agents[a].confidence_scores[c1] = (65 * SCALE) \div 100
               /\ agents[a].success_history[c2] = <<0>>
               /\ agents[a].confidence_scores[c2] = (35 * SCALE) \div 100

\* the outcomes the driver passed to update_confidence for capability c of
\* agent a, in call order
C11_Outcomes(a, c) ==
    LET calls == SelectSeq(outcome_log,
                           LAMBDA r : r.agent = a /\ r.capability = c)
    IN  [i \in DOMAIN calls |-> calls[i].outcome]

\* C11: for every agent and capability the outcome history holds at most 10
\* entries, each 0 or 1, and equals the most recent min(n, 10) of the n
\* outcomes recorded for it, in the order they were recorded.
C11_BoundedHistory ==
    \A a \in DOMAIN agents :
        \A c \in DOMAIN agents[a].success_history :
            LET history == agents[a].success_history[c]
                recorded == C11_Outcomes(a, c)
                n == Len(recorded)
                kept == IF n < 10 THEN n ELSE 10
            IN  /\ Len(history) <= 10
                /\ \A i \in DOMAIN history : history[i] \in {0, 1}
                /\ Len(history) = kept
                /\ \A i \in 1..kept : history[i] = recorded[n - kept + i]

\* twelve outcomes were pushed for one capability, the two evicted ones (the
\* first two) differ from the two pushed last, and ten are retained
C11_Witness ==
    \E a \in DOMAIN agents :
        LET recorded == C11_Outcomes(a, "x")
        IN  /\ Len(recorded) = 12
            /\ recorded[1] = 1 /\ recorded[2] = 1
            /\ recorded[11] = 0 /\ recorded[12] = 0
            /\ Len(agents[a].success_history["x"]) = 10

\* C12: update_confidence for a capability the agent did not declare changes
\* nothing on that agent; and a completion changes confidence values and
\* outcome histories only on the task's assigned agent, and there only for
\* capabilities both required by the task and declared by the agent.
C12_LedgerFrame ==
    [][/\ \A a \in DOMAIN agents, c \in Caps, o \in {0, 1} :
              c \notin agents[a].capabilities
                  => update_confidence(agents[a], c, o) = agents[a]
       /\ \A t \in DOMAIN tasks, s \in BOOLEAN, d \in Durations :
              (ProcessTaskCompletion(t, s, d) /\ ~C7_Case(t))
                  => \A b \in DOMAIN agents :
                         \A c \in DOMAIN agents[b].confidence_scores :
                             (\/ b # tasks[t].assigned_agent
                              \/ c \notin Range(tasks[t].required_capabilities)
                              \/ c \notin agents[b].capabilities)
                                 => /\ agents'[b].confidence_scores[c]
                                        = agents[b].confidence_scores[c]
                                    /\ agents'[b].success_history[c]
                                        = agents[b].success_history[c]
    ]_vars

\* an agent that declares only "x" has completed a task requiring "x" and
\* "y" and learned on "x", next to an agent that declares both and has an
\* untouched ledger
C12_Witness ==
    \E a, b \in DOMAIN agents :
        /\ agents[a].capabilities = {"x"}
        /\ Len(agents[a].performance_history) = 1
        /\ agents[a].performance_history[1].capabilities = <<"x", "y">>
        /\ agents[a].success_history["x"] = <<1>>
        /\ agents[a].confidence_scores["x"] > SCALE \div 2
        /\ agents[b].capabilities = {"x", "y"}
        /\ agents[b].success_history = [c \in {"x", "y"} |-> <<>>]
        /\ agents[b].confidence_scores = [c \in {"x", "y"} |-> SCALE \div 2]

\* C13: every agent that declares at least one capability has
\* adaptability_score equal to the mean of its current confidence values
\* over all of its declared capabilities.
C13_AdaptabilityIsMean ==
    \A a \in DOMAIN agents :
        agents[a].capabilities # {} =>
            agents[a].adaptability_score.n * Cardinality(agents[a].capabilities) * SCALE
                = agents[a].adaptability_score.d
                      * SumFn([c \in agents[a].capabilities |->
                                  agents[a].confidence_scores[c]],
                              agents[a].capabilities)

\* an agent with two capabilities has learned on one of them only: its
\* adaptability is no longer 0.5 and differs from both confidence values
C13_Witness ==
    \E a \in DOMAIN agents :
        /\ agents[a].capabilities = {"x", "y"}
        /\ agents[a].success_history["x"] # <<>>
        /\ agents[a].success_history["y"] = <<>>
        /\ agents[a].confidence_scores["x"] # SCALE \div 2
        /\ agents[a].confidence_scores["y"] = SCALE \div 2
        /\ agents[a].adaptability_score.n * 2 # agents[a].adaptability_score.d

\* the records one assign_tasks step appends to assignment_history
C14_Commits ==
    SubSeq(assignment_history', Len(assignment_history) + 1,
           Len(assignment_history'))

\* the agent, as it is before the call, scores above 0.1 for the task
C14_Matches(a, t) ==
    calculate_agent_score(agents[a], tasks[t]) > ScoreDen \div 10

\* C14: within one assign_tasks call no task is committed to an agent A
\* while a pending task of strictly higher priority for which A scores above
\* 0.1 is left pending; and when the only idle agent matches two pending
\* tasks of priorities 9 and 3 (and nothing of priority 9 or more is pending
\* besides), the priority-9 task is assigned and the priority-3 task stays
\* pending.
C14_PriorityOrder ==
    [][AssignTasks =>
        /\ \A i \in DOMAIN C14_Commits :
               \A h \in DOMAIN tasks :
                   (/\ tasks[h].status = "pending"
                    /\ tasks[h].priority > tasks[C14_Commits[i].task_id].priority
                    /\ C14_Matches(C14_Commits[i].agent_id, h))
                       => tasks'[h].status # "pending"
        /\ \A a \in DOMAIN agents, t9, t3 \in DOMAIN tasks :
               (/\ \A b \in DOMAIN agents : agents[b].status = "idle" <=> b = a
                /\ tasks[t9].status = "pending" /\ tasks[t9].priority = 9
                /\ tasks[t3].status = "pending" /\ tasks[t3].priority = 3
                /\ C14_Matches(a, t9) /\ C14_Matches(a, t3)
                /\ \A o \in DOMAIN tasks :
                       (tasks[o].status = "pending" /\ tasks[o].priority >= 9)
                           => o = t9)
                   => /\ tasks'[t9].status = "in_progress"
                      /\ tasks'[t9].assigned_agent = a
                      /\ tasks'[t3].status = "pending"
                      /\ tasks'[t3].assigned_agent = None
    ]_vars

\* the only agent ever added works on the priority-9 task, committed by the
\* only assignment made so far, while a priority-3 task it matches, created
\* before the priority-9 one, is still pending and was never started
C14_Witness ==
    \E a \in DOMAIN agents, t9, t3 \in DOMAIN tasks :
        /\ nextAgentId = 2
        /\ t3 < t9
        /\ tasks[t9].priority = 9
        /\ tasks[t9].status = "in_progress"
        /\ tasks[t9].assigned_agent = a
        /\ tasks[t3].priority = 3
        /\ tasks[t3].status = "pending"
        /\ tasks[t3].started_at = NoneF
        /\ Range(tasks[t3].required_capabilities) \subseteq agents[a].capabilities
        /\ Len(assignment_history) = 1
        /\ assignment_history[1].task_id = t9

\* the agent is idle before the assign_tasks step and not yet committed when
\* the step's i-th commit is made: it stays idle or is committed later
C15_StillAvailable(b, i) ==
    /\ agents[b].status = "idle"
    /\ \/ agents'[b].status = "idle"
       \/ \E j \in DOMAIN C14_Commits : j >= i /\ C14_Commits[j].agent_id = b

\* C15: assign_tasks commits a task only when its best score over the
\* still-available idle agents is strictly greater than 0.1; a pending task
\* it does not commit is left as it was (pending, no assignee, never
\* failed); and no task stays pending in a call in which some idle agent
\* that the call leaves available scores above 0.1 for it, so a skipped
\* task is assigned by the first later call that has such an agent.
C15_Threshold ==
    [][AssignTasks =>
        /\ \A i \in DOMAIN C14_Commits :
               LET t == C14_Commits[i].task_id
                   a == C14_Commits[i].agent_id
               IN  /\ C14_Commits[i].score = calculate_agent_score(agents[a], tasks[t])
                   /\ C14_Commits[i].score > ScoreDen \div 10
                   /\ \A b \in DOMAIN agents :
                          C15_StillAvailable(b, i) =>
                              C14_Commits[i].score
                                  >= calculate_agent_score(agents[b], tasks[t])
        /\ \A t \in DOMAIN tasks :
               (/\ tasks[t].status = "pending"
                /\ \A i \in DOMAIN C14_Commits : C14_Commits[i].task_id # t)
                   => /\ tasks'[t] = tasks[t]
                      /\ tasks'[t].assigned_agent = None
                      /\ \A b \in DOMAIN agents :
                             (agents[b].status = "idle" /\ agents'[b].status = "idle")
                                 => ~C14_Matches(b, t)
    ]_vars

\* a task requiring "y" was skipped by the call that committed a later task
\* of the same priority to an agent declaring only "x" (a score of exactly
\* 0.1), and was assigned by a later call to an agent declaring "y"
C15_Witness ==
    \E t1, t2 \in DOMAIN tasks, a1, a2 \in DOMAIN agents :
        /\ t1 < t2
        /\ tasks[t1].priority = tasks[t2].priority
        /\ tasks[t1].required_capabilities = <<"y">>
        /\ agents[a1].capabilities = {"x"}
        /\ "y" \in agents[a2].capabilities
        /\ Len(assignment_history) = 2
        /\ assignment_history[1].task_id = t2
        /\ assignment_history[1].agent_id = a1
        /\ assignment_history[2].task_id = t1
        /\ assignment_history[2].agent_id = a2
        /\ tasks[t1].status = "in_progress"
        /\ tasks[t1].assigned_agent = a2

\* the recent success rate of a capability in units of 1/SRDen: the mean of
\* its outcome history, 0.5 when the history is empty
C16_SuccessRate(agent, c) ==
    IF agent.success_history[c] = <<>>
    THEN SRDen \div 2
    ELSE (SumSeq(agent.success_history[c]) * SRDen)
             \div Len(agent.success_history[c])

\* the score C16 states, in units of 1/ScoreDen, with the required
\* capabilities taken as the set of names section 3 of the specification
\* says they are: required is that set, matched the part of it the agent
\* declares
C16_Score(agent, task) ==
    LET required == Range(task.required_capabilities)
        matched == required \cap agent.capabilities
        k == Cardinality(matched)
        match == 400 * k * (LcmReq \div Cardinality(required)) * SRDen * SCALE
        confidence ==
            IF k = 0 THEN 0
            ELSE 350 * SumFn([c \in matched |-> agent.confidence_scores[c]], matched)
                     * (LcmReq \div k) * SRDen
        success ==
            IF k = 0 THEN 0
            ELSE 150 * SumFn([c \in matched |-> C16_SuccessRate(agent, c)], matched)
                     * (LcmReq \div k) * SCALE
        load == (IF agent.status = "idle" THEN 100 ELSE 30) * SCALE * LcmReq * SRDen
    IN  IF agent.capabilities = {} \/ required = {}
        THEN 0
        ELSE match + confidence + success + load

\* C16: calculate_agent_score(agent, task) is 0 when the agent has no
\* capabilities or the task requires none, and otherwise
\* 0.40*(matched/required count) + 0.35*(mean confidence over the matched
\* required capabilities, 0 if none) + 0.15*(mean recent success rate over
\* them, 0 if none) + 0.10*(1.0 if the agent is idle, else 0.3).
C16_ScoreFormula ==
    \A a \in DOMAIN agents, t \in DOMAIN tasks :
        calculate_agent_score(agents[a], tasks[t]) = C16_Score(agents[a], tasks[t])

\* C17: for every agent and task reachable through the controller's
\* operations, calculate_agent_score returns a value in [0, 1].
C17_ScoreInRange ==
    \A a \in DOMAIN agents, t \in DOMAIN tasks :
        /\ calculate_agent_score(agents[a], tasks[t]) >= 0
        /\ calculate_agent_score(agents[a], tasks[t]) <= ScoreDen

\* an idle agent that succeeded on the capability a task requires scores
\* above 0.8 for it, and an agent scores 0.1 for a task none of whose
\* required capabilities it declares
C17_Witness ==
    /\ \E a \in DOMAIN agents, t \in DOMAIN tasks :
           /\ agents[a].status = "idle"
           /\ agents[a].success_history["x"] = <<1>>
           /\ calculate_agent_score(agents[a], tasks[t]) > 8 * (ScoreDen \div 10)
    /\ \E b \in DOMAIN agents, u \in DOMAIN tasks :
           /\ Range(tasks[u].required_capabilities) \cap agents[b].capabilities = {}
           /\ calculate_agent_score(agents[b], tasks[u]) = ScoreDen \div 10

\* the required-capability lists of one or two entries
C18_Lists ==
    {<<c>> : c \in Caps} \cup {<<c, e>> : c \in Caps, e \in Caps}

\* C18: the score of an (agent, task) pair and the confidence values after a
\* completion depend only on the set of required capability names: a list
\* with the same names, in another order or with a name repeated, gives the
\* same score and the same confidence values.
C18_RequiredIsASet ==
    \A a \in DOMAIN agents, t \in DOMAIN tasks :
        \A q \in C18_Lists :
            Range(q) = Range(tasks[t].required_capabilities) =>
                LET other == [tasks[t] EXCEPT !.required_capabilities = q]
                IN  /\ calculate_agent_score(agents[a], other)
                        = calculate_agent_score(agents[a], tasks[t])
                    /\ \A o \in {0, 1} :
                           (/\ UpdatesFit(agents[a], q)
                            /\ UpdatesFit(agents[a], tasks[t].required_capabilities))
                               => UpdateAll(agents[a], q, o).confidence_scores
                                      = UpdateAll(agents[a],
                                                  tasks[t].required_capabilities,
                                                  o).confidence_scores

\* the ratio r equals n / d
C19_Equals(r, n, d) == r.d > 0 /\ d > 0 /\ r.n * d = n * r.d

\* C19: immediately after every process_task_completion that takes effect,
\* system_efficiency equals total_tasks_completed / (total_tasks_completed +
\* total_tasks_failed) and agent_utilization equals (agents not idle) /
\* (agents), both on the state after the completing agent was released.
C19_MetricsAfterCompletion ==
    [][\A t \in DOMAIN tasks, s \in BOOLEAN, d \in Durations :
          (ProcessTaskCompletion(t, s, d) /\ ~C7_Case(t))
              => /\ C19_Equals(system_metrics'.system_efficiency,
                               system_metrics'.total_tasks_completed,
                               system_metrics'.total_tasks_completed
                                   + system_metrics'.total_tasks_failed)
                 /\ C19_Equals(system_metrics'.agent_utilization,
                               Cardinality({a \in DOMAIN agents' :
                                               agents'[a].status # "idle"}),
                               Cardinality(DOMAIN agents'))
    ]_vars

\* three tasks have been finished, two completed and one failed, every agent
\* is released: efficiency is 2/3 and utilization 0
C19_Witness ==
    /\ Cardinality({t \in DOMAIN tasks : tasks[t].status = "completed"}) = 2
    /\ Cardinality({t \in DOMAIN tasks : tasks[t].status = "failed"}) = 1
    /\ system_metrics.total_tasks_completed = 2
    /\ system_metrics.total_tasks_failed = 1
    /\ DOMAIN agents # {}
    /\ \A a \in DOMAIN agents : agents[a].status = "idle"
    /\ system_metrics.system_efficiency.n * 3 = 2 * system_metrics.system_efficiency.d
    /\ system_metrics.agent_utilization.n = 0

\* C20: whenever the agent registry is empty, the system metric
\* agent_utilization is 0, also after the last agent was removed following
\* earlier completions.
C20_IdleWhenNoAgents ==
    DOMAIN agents = {} => system_metrics.agent_utilization.n = 0

\* C21: assignment_history is append-only: every step keeps the existing
\* records in place and unchanged, only assign_tasks adds records, and it
\* adds, at the end, exactly one record (task id, agent id, score) for each
\* task it commits.
C21_AppendOnly ==
    [][/\ Len(assignment_history') >= Len(assignment_history)
       /\ SubSeq(assignment_history', 1, Len(assignment_history))
              = assignment_history
       /\ assignment_history' # assignment_history => AssignTasks
       /\ AssignTasks =>
              \A t \in DOMAIN tasks :
                  LET records == {i \in DOMAIN C14_Commits :
                                     C14_Commits[i].task_id = t}
                  IN  IF tasks[t].status = "pending"
                             /\ tasks'[t].status = "in_progress"
                      THEN /\ Cardinality(records) = 1
                           /\ \A i \in records :
                                  /\ C14_Commits[i].agent_id
                                         = tasks'[t].assigned_agent
                                  /\ C14_Commits[i].score
                                         = calculate_agent_score(
                                               agents[C14_Commits[i].agent_id],
                                               tasks[t])
                      ELSE records = {}
    ]_vars

\* two assignments are on record, and the task of the first one has since
\* been removed and the agent of the second one too
C21_Witness ==
    /\ Len(assignment_history) = 2
    /\ assignment_history[1].task_id \notin DOMAIN tasks
    /\ assignment_history[2].agent_id \notin DOMAIN agents
    /\ assignment_history[1].task_id # assignment_history[2].task_id

\* C22: remove_agent(A) on a busy agent puts A's current task back to
\* pending with no assignee and deletes A, leaving every other task and
\* agent as it was, so that the task is a candidate of the next assign_tasks
\* call (which commits it unless every idle agent scoring above 0.1 for it
\* goes to another task); remove_agent on an unknown id returns False and
\* changes nothing.
C22_RemoveAgent ==
    [][\A a \in AgentIds :
          lastOp' = Call("remove_agent", a) =>
              IF a \notin DOMAIN agents
              THEN ~remove_agent_returns(a) /\ UNCHANGED ctl
              ELSE /\ remove_agent_returns(a)
                   /\ DOMAIN agents' = DOMAIN agents \ {a}
                   /\ \A b \in DOMAIN agents' : agents'[b] = agents[b]
                   /\ DOMAIN tasks' = DOMAIN tasks
                   /\ \A t \in DOMAIN tasks :
                          IF agents[a].status = "busy" /\ t = agents[a].current_task
                          THEN /\ tasks'[t].status = "pending"
                               /\ tasks'[t].assigned_agent = None
                               /\ t \in {Assignments'[i].task_id :
                                             i \in DOMAIN Assignments'}
                                      \/ \A b \in DOMAIN agents' :
                                             \/ agents'[b].status # "idle"
                                             \/ ~C14_Matches(b, t)
                                             \/ b \in {Assignments'[i].agent_id :
                                                          i \in DOMAIN Assignments'}
                          ELSE tasks'[t] = tasks[t]
    ]_vars

\* a task first assigned to an agent that has since been removed was
\* assigned again, to another agent, which is working on it
C22_Witness ==
    \E t \in DOMAIN tasks :
        /\ Len(assignment_history) = 2
        /\ assignment_history[1].task_id = t
        /\ assignment_history[2].task_id = t
        /\ assignment_history[1].agent_id \notin DOMAIN agents
        /\ assignment_history[2].agent_id \in DOMAIN agents
        /\ tasks[t].status = "in_progress"
        /\ tasks[t].assigned_agent = assignment_history[2].agent_id
        /\ agents[tasks[t].assigned_agent].current_task = t

\* the pairings of pending tasks with distinct idle agents in which every
\* pair scores above 0.1
C27_Pairings ==
    LET pending == {t \in DOMAIN tasks : tasks[t].status = "pending"}
        idle == {a \in DOMAIN agents : agents[a].status = "idle"}
    IN  UNION {{f \in [T -> idle] :
                    /\ \A t \in T : C14_Matches(f[t], t)
                    /\ \A t, u \in T : f[t] = f[u] => t = u} :
               T \in SUBSET pending}

\* the most tasks a pairing can assign in the current state
C27_MaxPairing ==
    CHOOSE n \in 0..Cardinality(DOMAIN tasks) :
        /\ \E f \in C27_Pairings : Cardinality(DOMAIN f) = n
        /\ \A f \in C27_Pairings : Cardinality(DOMAIN f) <= n

\* C27: assign_tasks is greedy, not globally optimal. Each call serves the
\* first task with the agent that is best for that task alone, so it
\* commits at least half of what the best pairing of pending tasks with
\* idle agents would, never more than it, and in some reachable states
\* fewer: a pending task stays unassigned although another pairing assigns
\* every pending task with a score above 0.1 (the witness).
C27_Greedy ==
    [][AssignTasks =>
        /\ Len(C14_Commits) <= C27_MaxPairing
        /\ 2 * Len(C14_Commits) >= C27_MaxPairing
        /\ \A i \in DOMAIN C14_Commits :
               (\A j \in DOMAIN C14_Commits : j >= i)
                   => \A b \in DOMAIN agents :
                          agents[b].status = "idle"
                              => C14_Commits[i].score
                                     >= calculate_agent_score(
                                            agents[b], tasks[C14_Commits[i].task_id])
    ]_vars

\* a state in which a pairing assigns both pending tasks while the list
\* assign_tasks returns commits only one of them: the agent declaring both
\* capabilities takes the task the other agent could have done
C27_Witness ==
    /\ Cardinality({t \in DOMAIN tasks : tasks[t].status = "pending"}) = 2
    /\ C27_MaxPairing = 2
    /\ Len(Assignments) = 1
    /\ \E a \in DOMAIN agents \ {Assignments[1].agent_id} :
           /\ agents[a].status = "idle"
           /\ C14_Matches(a, Assignments[1].task_id)

\* C28: every commit of an assign_tasks call goes to the agent whose score
\* for the task is maximal among the agents still available at that commit,
\* to the first of them in registry insertion order when several share the
\* maximum; the score in the record is calculate_agent_score of that pair
\* as the call found it.
C28_MaximalScore ==
    [][AssignTasks =>
        \A i \in DOMAIN C14_Commits :
            LET t == C14_Commits[i].task_id
                a == C14_Commits[i].agent_id
            IN  /\ agents[a].status = "idle"
                /\ tasks[t].status = "pending"
                /\ C14_Commits[i].score = calculate_agent_score(agents[a], tasks[t])
                /\ \A b \in DOMAIN agents :
                       C15_StillAvailable(b, i) =>
                           LET other == calculate_agent_score(agents[b], tasks[t])
                           IN  \/ other < C14_Commits[i].score
                               \/ other = C14_Commits[i].score /\ a <= b
    ]_vars

\* two commits are on record: the first was made on a tie, to the earlier
\* of two agents with equal scores; the second went to the later agent,
\* whose score was strictly greater than that of the earlier one, idle
\* again and scoring above 0.1
C28_Witness ==
    /\ Len(assignment_history) = 2
    /\ \E b, c \in DOMAIN agents :
           LET first == assignment_history[1]
               second == assignment_history[2]
           IN  /\ first.agent_id = c
               /\ second.agent_id = b
               /\ c < b
               /\ first.task_id \in DOMAIN tasks
               /\ second.task_id \in DOMAIN tasks
               /\ agents[b].total_tasks_completed = 0
               /\ calculate_agent_score([agents[b] EXCEPT !.status = "idle"],
                                        tasks[first.task_id]) = first.score
               /\ agents[c].status = "idle"
               /\ calculate_agent_score(agents[c], tasks[second.task_id])
                      < second.score
               /\ calculate_agent_score(agents[c], tasks[second.task_id])
                      > ScoreDen \div 10

\* C30: when assign_tasks returns, no pending task and idle agent score
\* above 0.1 together: every such pair of the state it leaves, which is a
\* pair that was pending and idle when the call started, scores 0.1 or
\* less.
C30_NothingLeft ==
    [][AssignTasks =>
        \A t \in DOMAIN tasks, a \in DOMAIN agents :
            (tasks'[t].status = "pending" /\ agents'[a].status = "idle")
                => /\ tasks[t].status = "pending"
                   /\ agents[a].status = "idle"
                   /\ calculate_agent_score(agents'[a], tasks'[t]) <= ScoreDen \div 10
    ]_vars

\* a call committed the later of two tasks and left the earlier one pending
\* next to an idle agent that scores exactly 0.1 for it
C30_Witness ==
    \E t \in DOMAIN tasks, a \in DOMAIN agents :
        /\ Len(assignment_history) = 1
        /\ t < assignment_history[1].task_id
        /\ tasks[t].status = "pending"
        /\ agents[a].status = "idle"
        /\ calculate_agent_score(agents[a], tasks[t]) = ScoreDen \div 10
        /\ assignment_history[1].agent_id \in DOMAIN agents
        /\ agents[assignment_history[1].agent_id].status = "busy"

\* the agent declares at least one of the task's required capabilities
C29_Shares(a, t) ==
    agents[a].capabilities \cap Range(tasks[t].required_capabilities) # {}

\* C29: assign_tasks never commits a task to an agent that declares none of
\* the task's required capabilities; an idle agent scores strictly above
\* 0.1 for a task exactly when the task has requirements and the agent
\* declares at least one of them; and when no two registered agents have a
\* capability in common, a task whose requirements one agent declares in
\* full is committed to that agent or not at all.
C29_CoveringAgent ==
    [][AssignTasks =>
        /\ \A i \in DOMAIN C14_Commits :
               C29_Shares(C14_Commits[i].agent_id, C14_Commits[i].task_id)
        /\ \A a \in DOMAIN agents, t \in DOMAIN tasks :
               agents[a].status = "idle" =>
                   (C14_Matches(a, t)
                       <=> (tasks[t].required_capabilities # <<>> /\ C29_Shares(a, t)))
        /\ (\A a, b \in DOMAIN agents :
                a # b => agents[a].capabilities \cap agents[b].capabilities = {})
               => \A i \in DOMAIN C14_Commits, b \in DOMAIN agents :
                      Range(tasks[C14_Commits[i].task_id].required_capabilities)
                              \subseteq agents[b].capabilities
                          => C14_Commits[i].agent_id = b
    ]_vars

\* one call has committed a task requiring "x" to the agent declaring "x"
\* and a task requiring "y" to the agent declaring "y", the agent registered
\* first taking the task created last
C29_Witness ==
    /\ Len(assignment_history) = 2
    /\ \E ax, ay \in DOMAIN agents, tx, ty \in DOMAIN tasks :
           /\ agents[ax].capabilities = {"x"}
           /\ agents[ay].capabilities = {"y"}
           /\ tasks[tx].required_capabilities = <<"x">>
           /\ tasks[ty].required_capabilities = <<"y">>
           /\ ay < ax /\ ty < tx
           /\ tasks[tx].status = "in_progress" /\ tasks[tx].assigned_agent = ax
           /\ tasks[ty].status = "in_progress" /\ tasks[ty].assigned_agent = ay
           /\ agents[ax].current_task = tx
           /\ agents[ay].current_task = ty

\* the task is due at the current reading of the clock
C25_Due(t) ==
    /\ tasks[t].status = "in_progress"
    /\ tasks[t].started_at # NoneF
    /\ clock - tasks[t].started_at >= tasks[t].estimated_duration

\* the tasks whose status a step changes
C25_Changed == {t \in DOMAIN tasks : tasks'[t].status # tasks[t].status}

\* C25: a simulate_task_execution call made while simulation_active is
\* false changes nothing; one made while it is true changes the status
\* only of tasks that are in progress, have a start time and whose elapsed
\* time has reached their estimated duration, finishes each of them once
\* (one count in the metrics and one performance record per task, the
\* elapsed time as actual duration), finishes every such task whose agent is
\* registered, and leaves every other task as it was.
C25_Tick ==
    [][(lastOp' = Call("simulate_task_execution", None) /\ clock' = clock) =>
        IF ~simulation_active
        THEN UNCHANGED <<ctl, simulation_active>>
        ELSE /\ simulation_active'
             /\ DOMAIN tasks' = DOMAIN tasks
             /\ \A t \in DOMAIN tasks :
                    IF t \in C25_Changed
                    THEN /\ C25_Due(t)
                         /\ tasks'[t].status \in {"completed", "failed"}
                         /\ tasks'[t].actual_duration = clock - tasks[t].started_at
                    ELSE tasks'[t] = tasks[t]
             /\ system_metrics'.total_tasks_completed
                        + system_metrics'.total_tasks_failed
                    = system_metrics.total_tasks_completed
                        + system_metrics.total_tasks_failed
                        + Cardinality(C25_Changed)
             /\ \A a \in DOMAIN agents :
                    Len(agents'[a].performance_history)
                        = Len(agents[a].performance_history)
                            + Cardinality({t \in C25_Changed :
                                              tasks[t].assigned_agent = a})
             /\ ctl' # ctl =>
                    \A t \in DOMAIN tasks :
                        (C25_Due(t) /\ tasks[t].assigned_agent \in DOMAIN agents)
                            => t \in C25_Changed
    ]_vars

\* the last call was a tick of the running simulation: a task started at
\* minute 0 was finished by it at minute 1, its estimated duration, while
\* a task started at the same time and estimated at two minutes is still in
\* progress
C25_Witness ==
    /\ lastOp = Call("simulate_task_execution", None)
    /\ simulation_active
    /\ clock = 1
    /\ \E t, u \in DOMAIN tasks :
           /\ tasks[t].status \in {"completed", "failed"}
           /\ tasks[t].started_at = 0
           /\ tasks[t].actual_duration = 1
           /\ tasks[t].estimated_duration = 1
           /\ tasks[u].status = "in_progress"
           /\ tasks[u].started_at = 0
           /\ tasks[u].estimated_duration = 2

\* the success probability as stated: the mean of the agent's confidence
\* over all required capabilities, 0.5 for a capability without an entry,
\* times 1 - 0.1 * complexity
C26_Stated(agent, task) ==
    LET req == task.required_capabilities
    IN  SumFn([i \in DOMAIN req |-> get_capability_confidence(agent, req[i])],
              DOMAIN req)
            * (LcmReq \div Len(req)) * (10 - task.complexity)

\* C26: the success probability a tick of the running simulation uses for
\* a due task is the mean of the assigned agent's confidence over all of
\* the task's required capabilities, 0.5 for a capability the agent has no
\* entry for, multiplied by 1 - 0.1 * complexity.
C26_SuccessProbability ==
    \A t \in DOMAIN tasks :
        (/\ simulation_active
         /\ C25_Due(t)
         /\ tasks[t].assigned_agent \in DOMAIN agents)
            => success_prob(agents[tasks[t].assigned_agent], tasks[t])
                   = C26_Stated(agents[tasks[t].assigned_agent], tasks[t])

\* C24: the snapshot returned by get_system_state or get_agent_status shares
\* no mutable structure with the controller: a write of the caller into the
\* returned metrics dict, capability list, confidence map or history list
\* leaves every field of the controller unchanged.
C24_NoSharedStructure ==
    [][lastOp'.op = "write" => UNCHANGED <<ctl, simulation_active>>]_vars

\* the simulation thread is inside assign_tasks
C23_InsideAssignTasks == sim_thread.pc \in {"scan", "commit"}

\* a step in which a callback's call of the controller takes effect
C23_CallbackActs ==
    \/ nextAgentId' # nextAgentId
    \/ nextTaskId' # nextTaskId
    \/ training_mode' # training_mode
    \/ simulation_active' # simulation_active

\* C23: the mutating operations issued by the dashboard's simulation thread
\* and by its callbacks are serialized: while the thread is inside
\* assign_tasks no add_agent, create_task, toggle_training_mode,
\* start_simulation or stop_simulation of a callback takes effect.
C23_Serialized ==
    [][C23_InsideAssignTasks => ~C23_CallbackActs]_vars

\* C31: in every reachable state total_tasks_completed + total_tasks_failed
\* is at most total_tasks_created, and no agent has more outcomes on its
\* completed/failed counters than tasks were created: a task contributes at
\* most one outcome however often process_task_completion is called for it.
C31_OneOutcomePerTask ==
    /\ system_metrics.total_tasks_completed + system_metrics.total_tasks_failed
           <= system_metrics.total_tasks_created
    /\ \A a \in DOMAIN agents :
           agents[a].total_tasks_completed + agents[a].total_tasks_failed
               <= system_metrics.total_tasks_created

\* C32: remove_task(t) changes an agent only when t is that agent's current
\* in-progress task, and then makes it idle with current_task None; removing
\* a pending, completed or failed task leaves every agent as it was; and
\* remove_task on an unknown id returns False and changes nothing.
C32_RemoveTaskFrame ==
    [][\A t \in TaskIds :
          lastOp' = Call("remove_task", t) =>
              IF t \notin DOMAIN tasks
              THEN ~remove_task_returns(t) /\ UNCHANGED ctl
              ELSE /\ remove_task_returns(t)
                   /\ DOMAIN agents' = DOMAIN agents
                   /\ \A a \in DOMAIN agents :
                          IF tasks[t].status = "in_progress"
                                 /\ agents[a].current_task = t
                          THEN /\ agents'[a].status = "idle"
                               /\ agents'[a].current_task = None
                          ELSE agents'[a] = agents[a]
    ]_vars

\* C33: two assign_tasks executions that interleave never commit one agent
\* to two tasks and never commit one task to two agents (no agent is
\* released in SpecRace, so no two commits on record may share their agent
\* or their task unless they are the same pair).
C33_NoDoubleCommit ==
    \A i, j \in DOMAIN assignment_history :
        /\ assignment_history[i].agent_id = assignment_history[j].agent_id
               => assignment_history[i].task_id = assignment_history[j].task_id
        /\ assignment_history[i].task_id = assignment_history[j].task_id
               => assignment_history[i].agent_id = assignment_history[j].agent_id

\* the loop threads that have not left run_simulation
C34_Running == {i \in DOMAIN threads : threads[i].pc # "exited"}

\* C34: whatever the sequence of Start and Stop clicks, at most one
\* simulation loop thread is running the simulate/assign loop at any time.
C34_OneLoopThread == Cardinality(C34_Running) <= 1

\* C35: in every reachable state every registered agent's learning_rate is
\* 0.3 when training_mode is on and 0.1 when it is off, whatever the order
\* of toggle_training_mode and add_agent calls.
C35_LearningRateFollowsMode ==
    \A a \in DOMAIN agents :
        agents[a].learning_rate = IF training_mode THEN 3 ELSE 1

\* the task's success_score agrees with its status: 1.0 exactly when
\* completed, 0.0 exactly when failed, unset when pending or in progress
C36_ScoreMatchesStatus(task) ==
    /\ task.success_score = 1 <=> task.status = "completed"
    /\ task.success_score = 0 <=> task.status = "failed"
    /\ task.success_score = NoneF <=> task.status \in {"pending", "in_progress"}

\* C36: in every reachable state a task's success_score is 1.0 exactly when
\* it is completed, 0.0 exactly when it is failed and unset when it is
\* pending or in progress; and no step clears or changes the assigned_agent
\* of a completed or failed task that stays in the system, the removal of
\* that agent included.
C36_OutcomeAndAudit ==
    [][/\ \A t \in DOMAIN tasks' : C36_ScoreMatchesStatus(tasks'[t])
       /\ \A t \in DOMAIN tasks \cap DOMAIN tasks' :
              tasks[t].status \in {"completed", "failed"}
                  => /\ tasks'[t].assigned_agent = tasks[t].assigned_agent
                     /\ tasks'[t].assigned_agent # None
    ]_vars

\* a completed task scored 1.0 and a failed task scored 0.0 both keep the
\* id of the agent that worked on them, which is no longer registered,
\* while another agent is
C36_Witness ==
    \E t, u \in DOMAIN tasks :
        /\ tasks[t].status = "completed" /\ tasks[t].success_score = 1
        /\ tasks[u].status = "failed" /\ tasks[u].success_score = 0
        /\ tasks[t].assigned_agent # None
        /\ tasks[t].assigned_agent = tasks[u].assigned_agent
        /\ tasks[t].assigned_agent \notin DOMAIN agents
        /\ DOMAIN agents # {}

\* ------------------------------------------------- the simulation, in time
\* a minute passes
Tick ==
    /\ clock < MaxClock
    /\ clock' = clock + 1
    /\ UNCHANGED <<ctl, lastOp, outcome_log, simulation_active, sim_thread,
                   snapshot, stop_simulation, threads>>

\* the driver's periodic call of simulate_task_execution
CallSimulate ==
    /\ SimulateTaskExecution
    /\ UNCHANGED <<lastOp, outcome_log, clock, sim_thread, snapshot,
                   stop_simulation, threads>>

\* every pending task would be due within the minutes the clock still has
DueInTime ==
    \A t \in DOMAIN tasks :
        tasks[t].status = "pending"
            => clock + tasks[t].estimated_duration <= MaxClock

\* a driver that starts the simulation and never stops it, calls the tick
\* again and again while time passes, and adds and removes agents and
\* tasks and calls assign_tasks in between
NextLive ==
    \/ /\ nextAgentId <= LiveAgents
       /\ \E caps \in AgentCapSets : AddAgent(caps)
       /\ UNCHANGED <<lastOp, outcome_log>> /\ Quiet
    \/ /\ nextTaskId <= LiveTasks
       /\ \E i \in LiveTaskInputs :
              CreateTask(i.required_capabilities, i.complexity, i.priority,
                         i.estimated_duration)
       /\ UNCHANGED <<lastOp, outcome_log>> /\ Quiet
    \/ /\ DueInTime
       /\ AssignTasks
       /\ UNCHANGED <<lastOp, outcome_log>> /\ Quiet
    \/ /\ StartSimulation
       /\ UNCHANGED <<lastOp, outcome_log, clock, sim_thread, snapshot,
                      stop_simulation, threads>>
    \/ CallSimulate
    \/ Tick
    \/ \E a \in AgentIds :
          /\ RemoveAgent(a)
          /\ UNCHANGED <<lastOp, outcome_log>> /\ Quiet
    \/ \E t \in TaskIds :
          /\ RemoveTask(t)
          /\ UNCHANGED <<lastOp, outcome_log>> /\ Quiet

\* time advances and the tick keeps being called (run_simulation calls it
\* every two seconds)
SpecLive ==
    Init /\ [][NextLive]_vars /\ WF_vars(Tick) /\ WF_vars(CallSimulate)

\* C37: with the simulation active and the tick called again and again as
\* time advances, a task that is in progress does not stay so forever: it
\* becomes completed or failed, or pending again, or leaves the system,
\* whatever else the driver calls in between.
C37_NoTaskStaysInProgress ==
    \A t \in 1..LiveTasks :
        (/\ simulation_active
         /\ t \in DOMAIN tasks
         /\ tasks[t].status = "in_progress")
            ~> (\/ t \notin DOMAIN tasks
                \/ tasks[t].status \in {"completed", "failed", "pending"})

\* ------------------------------------------------------ the queue, in time
\* the driver's periodic call of assign_tasks; a call made when no task is
\* pending or no agent is idle returns at once
CallAssign ==
    /\ \E t \in DOMAIN tasks : tasks[t].status = "pending"
    /\ \E a \in DOMAIN agents : agents[a].status = "idle"
    /\ AssignTasks
    /\ UNCHANGED <<lastOp, outcome_log>> /\ Quiet

\* the outcome of an in-progress task is reported
ReportOutcome(t) ==
    /\ t \in DOMAIN tasks
    /\ tasks[t].status = "in_progress"
    /\ \E s \in BOOLEAN : ProcessTaskCompletion(t, s, 4)
    /\ UNCHANGED <<lastOp, outcome_log>> /\ Quiet

\* a driver that registers specialists and creates tasks, removes nothing,
\* keeps calling assign_tasks and reports the outcome of every task in
\* progress
NextQueue ==
    \/ /\ nextAgentId <= QueueAgents
       /\ \E caps \in ApartCapSets : AddAgent(caps)
       /\ UNCHANGED <<lastOp, outcome_log>> /\ Quiet
    \/ /\ nextTaskId <= QueueTasks
       /\ \E i \in ApartTaskInputs :
              CreateTask(i.required_capabilities, i.complexity, i.priority,
                         i.estimated_duration)
       /\ UNCHANGED <<lastOp, outcome_log>> /\ Quiet
    \/ CallAssign
    \/ \E t \in 1..QueueTasks : ReportOutcome(t)

\* assign_tasks keeps being called and every task in progress is
\* eventually reported
SpecQueue ==
    /\ Init /\ [][NextQueue]_vars
    /\ WF_vars(CallAssign)
    /\ \A t \in 1..QueueTasks : WF_vars(ReportOutcome(t))

\* some registered agent declares one of the task's required capabilities
C38_Servable(t) ==
    \E a \in DOMAIN agents :
        \E i \in DOMAIN tasks[t].required_capabilities :
            tasks[t].required_capabilities[i] \in agents[a].capabilities

\* C38: when nothing is removed, every task in progress is eventually
\* reported and assign_tasks keeps being called, a pending task for which
\* some registered agent declares at least one required capability is
\* eventually assigned, whatever its priority.
C38_NoStarvation ==
    \A t \in 1..QueueTasks :
        (t \in DOMAIN tasks /\ tasks[t].status = "pending" /\ C38_Servable(t))
            ~> (t \in DOMAIN tasks /\ tasks[t].status # "pending")

\* the lower-priority task of two was assigned after the higher-priority
\* one was done, to the same agent, which declares only one of the two
\* capabilities the higher-priority task requires
C38_Witness ==
    /\ Len(assignment_history) = 2
    /\ assignment_history[1].agent_id = assignment_history[2].agent_id
    /\ LET first == assignment_history[1].task_id
           second == assignment_history[2].task_id
       IN  /\ tasks[first].priority > tasks[second].priority
           /\ tasks[first].status \in {"completed", "failed"}
           /\ tasks[second].status = "in_progress"
           /\ Len(tasks[first].required_capabilities) = 2

====
